---- MODULE Spec2Model ----
(***************************************************************************)
(* preludex: the crawl engine (crawl / crawlWithLinks / crawlWithSitemap), *)
(* the adapter chain (fetchWithFallback), the shared browser session of    *)
(* the playwright adapter and the URL helpers they use.                    *)
(***************************************************************************)
EXTENDS Integers, Sequences, FiniteSets, TLC

\* ------------------------------------------------------------------ bounds
MaxDepth == 2
MaxConcurrency == 2
MaxFailures == 2
MaxLinks == 4
MaxSegments == 3
MaxPieces == 3
MaxHits == 3
MaxDeepDepth == 3
MaxNesting == 4

\* --------------------------------------------------------- program constants
DefaultConcurrency == 3

MaxSlots == IF MaxConcurrency > DefaultConcurrency THEN MaxConcurrency ELSE DefaultConcurrency
Slots == 0..MaxSlots

\* ----------------------------------------------------------------- helpers
Range(s) == {s[i] : i \in 1..Len(s)}

\* array.filter(x => keep.has(x))
SelectSeqBy(s, keep) == SelectSeq(s, LAMBDA x : x \in keep)

\* JS Set insertion order: first occurrence kept, later duplicates dropped
Dedup(s, seen) ==
  LET first == {i \in 1..Len(s) : s[i] \notin seen /\ \A j \in 1..(i - 1) : s[j] # s[i]}
  IN [k \in 1..Cardinality(first) |-> s[CHOOSE i \in first : Cardinality({j \in first : j <= i}) = k]]

Take(s, n) == SubSeq(s, 1, IF n < Len(s) THEN n ELSE Len(s))
Drop(s, n) == SubSeq(s, (IF n < Len(s) THEN n ELSE Len(s)) + 1, Len(s))

\* -------------------------------------------------------------------- URLs
\* A URL is host + pathname (non-empty segments and a trailing-slash flag) +
\* search + hash; two URLs have the same toString() iff the records are equal.
MkUrl(h, p, sl, q, f) == [host |-> h, path |-> p, slash |-> sl, search |-> q, hash |-> f]
U(h, p) == MkUrl(h, p, FALSE, "", "")
NoUrl == MkUrl("", <<>>, FALSE, "", "")

normalizePageUrl(u) == [u EXCEPT !.hash = "", !.search = ""]

docPatterns == {"docs", "documentation", "guide", "guides", "api", "reference"}

toLowerCase(s) == CASE s = "Docs" -> "docs" [] s = "API" -> "api" [] OTHER -> s

\* faulty variant: the last documentation-root segment is taken
FirstDocIndex_last(parts) ==
  LET hits == {i \in 1..Len(parts) : toLowerCase(parts[i]) \in docPatterns}
  IN IF hits = {} THEN 0 ELSE CHOOSE i \in hits : \A j \in hits : i >= j

\* index of the first path segment that is a documentation root, 0 if none
FirstDocIndex(parts) ==
  LET hits == {i \in 1..Len(parts) : toLowerCase(parts[i]) \in docPatterns}
  IN IF hits = {} THEN 0 ELSE CHOOSE i \in hits : \A j \in hits : i <= j

\* detectBasePath: the matched segment (the code wraps it as "/segment/"), "" if none
detectBasePath(u) ==
  LET i == FirstDocIndex(u.path) IN IF i = 0 THEN "" ELSE u.path[i]

\* pathname.startsWith("/" + seg + "/")
PathStartsWith(u, seg) ==
  /\ Len(u.path) >= 1
  /\ u.path[1] = seg
  /\ (Len(u.path) >= 2 \/ u.slash)

\* toLocalPath: [dir, file] stands for dir/file.md
toLocalPath(u) ==
  LET parts == u.path
      i == FirstDocIndex(parts)
      rest == SubSeq(parts, i + 1, Len(parts))
  IN IF Len(rest) = 0 THEN [dir |-> <<>>, file |-> "index", num |-> 0]
     ELSE [dir |-> SubSeq(rest, 1, Len(rest) - 1), file |-> rest[Len(rest)], num |-> 0]

getDirectoryPath(lp) == lp.dir

\* addNumberedPrefix: the zero-padded number is put before the file name
addNumberedPrefix(lp, n) == [lp EXCEPT !.num = n]

\* NumberedCounter.next: counters.get(dir) ?? 0, plus one
CounterGet(c, dir) == IF dir \in DOMAIN c THEN c[dir] ELSE 0
CounterNext(c, dir) == CounterGet(c, dir) + 1
\* faulty variant: the number handed out is not stored
CounterSet_forget(c, dir, n) == c
CounterSet(c, dir, n) == [d \in (DOMAIN c) \cup {dir} |-> IF d = dir THEN n ELSE c[d]]

\* ------------------------------------------------------------ the web site
Hosts == {"x.com", "nextjs.org", "docs.anthropic.com"}

PE(h) == U(h, <<"docs">>)
PES(h) == MkUrl(h, <<"docs">>, TRUE, "", "")
PA(h) == U(h, <<"docs", "a">>)
PB(h) == U(h, <<"docs", "b">>)
PC(h) == U(h, <<"docs", "guide", "c">>)
PD(h) == U(h, <<"docs", "guide", "d">>)

Link(u) == [kind |-> "link", url |-> u]
FragOnly(u) == [kind |-> "fragment", url |-> u]
MailTo == [kind |-> "mailto", url |-> NoUrl]
JavaScript == [kind |-> "javascript", url |-> NoUrl]
\* a root-relative target such as /docs/b: it names no host
Rel(p) == [kind |-> "link", url |-> U("", p)]

\* raw link targets found in a page's content, markdown links then hrefs,
\* written as absolute URLs.  Each host serves a different site:
\* nextjs.org a chain, docs.anthropic.com a star whose pages link to each
\* other, the others a diamond with back links and non-document targets.
ChainLinks(u) ==
  LET h == u.host IN
  CASE u = PE(h) -> << Link(PA(h)) >>
    [] u = PA(h) -> << Link(PB(h)), Link(MkUrl(h, <<"docs", "a">>, FALSE, "", "#self")) >>
    [] u = PB(h) -> << Link(PC(h)), Link(PA(h)) >>
    [] u = PC(h) -> << Link(PD(h)) >>
    [] OTHER -> << >>

StarLinks(u) ==
  LET h == u.host IN
  CASE u = PE(h) -> << Link(PA(h)), Link(PB(h)), Link(PC(h)) >>
    [] u = PA(h) -> << Link(PB(h)), Link(PD(h)) >>
    [] u = PB(h) -> << Link(PA(h)), Link(PD(h)) >>
    [] u = PC(h) -> << Link(PD(h)), Link(PES(h)) >>
    [] OTHER -> << >>

DiamondLinks(u) ==
  LET h == u.host IN
  CASE u \in {PE(h), PES(h)} ->
                    << Link(PA(h)), Link(PB(h)), FragOnly(PE(h)), MailTo,
                       Link(MkUrl(h, <<"docs">>, TRUE, "", "#top")),
                       Link(U("other.com", <<"docs", "y">>)),
                       Link(U(h, <<"docs", "logo.png">>)),
                       Link(MkUrl(h, <<"docs", "a">>, FALSE, "?v=2", "")) >>
    [] u = PA(h) -> << Link(PC(h)), Link(PB(h)), Link(MkUrl(h, <<"docs">>, TRUE, "", "")) >>
    [] u = PB(h) -> << Link(MkUrl(h, <<"docs", "guide", "c">>, FALSE, "", "#s1")), Link(PA(h)),
                       Link(U(h, <<"blog", "post">>)) >>
    [] u = PC(h) -> << Link(PD(h)), Link(PA(h)) >>
    [] OTHER -> << >>

\* deep.dev: three pages under the entry page; a page two hops away through
\* the first of them and the third of them both link to the same page,
\* which links one page further; the third links to a leaf page as well
DeepHost == "deep.dev"
PX(h) == U(h, <<"docs", "x">>)
PW(h) == U(h, <<"docs", "w">>)
PV(h) == U(h, <<"docs", "v">>)
DeepLinks(u) ==
  LET h == u.host IN
  CASE u = PE(h) -> << Link(PA(h)), Link(PB(h)), Link(PC(h)) >>
    [] u = PA(h) -> << Link(PX(h)) >>
    [] u = PX(h) -> << Link(PW(h)) >>
    [] u = PC(h) -> << Link(PW(h)), Link(PD(h)) >>
    [] u = PW(h) -> << Link(PV(h)) >>
    [] OTHER -> << >>

PageLinks(u) ==
  CASE u.host = "nextjs.org" -> ChainLinks(u)
    [] u.host = DeepHost -> DeepLinks(u)
    [] u.host = "docs.anthropic.com" -> StarLinks(u)
    [] OTHER -> DiamondLinks(u)

AssetSegments == {"logo.png", "c.png"}
BadgeHosts == {"img.shields.io"}

\* new URL(raw, base): a target that names no host is on the host of the base
Resolve(u, base) == IF u.host = "" THEN [u EXCEPT !.host = base.host] ELSE u

\* pathname.match(/\.(png|jpg|jpeg|gif|svg|pdf|zip|tar|gz)$/i)
EndsInAsset(u) == Len(u.path) >= 1 /\ ~u.slash /\ u.path[Len(u.path)] \in AssetSegments

\* faulty variant: targets of every origin are kept
SameOrigin_any(a, b) == TRUE

\* rawUrl.origin === base.origin (the sites of the model are all https, default port)
SameOrigin(a, b) == a.host = b.host

\* extractDocLinks(content, base) with default options: the checks made on one match
LinkAccepted(l, base) ==
  LET rawUrl == Resolve(l.url, base) IN
  /\ l.kind = "link"
  /\ rawUrl.host \notin BadgeHosts
  /\ SameOrigin(rawUrl, base)
  /\ (detectBasePath(base) # "" => PathStartsWith(rawUrl, detectBasePath(base)))
  /\ ~EndsInAsset(rawUrl)

\* the matches that pass the checks, each resolved and normalised, in order
MapNormalize(raw, base) ==
  LET accepted == SelectSeq(raw, LAMBDA l : LinkAccepted(l, base))
  IN [i \in 1..Len(accepted) |-> normalizePageUrl(Resolve(accepted[i].url, base))]

extractDocLinks(raw, base) == Dedup(MapNormalize(raw, base), {})

\* the <url><loc> entries of the sitemap of the site
SitemapUrls(h) ==
  << PE(h), PA(h), PA(h), MkUrl(h, <<"docs", "b">>, FALSE, "?v=2", ""), U(h, <<"blog", "post">>), PC(h) >>

\* A sitemap document is an index ("<sitemapindex": subs are the <sitemap><loc>
\* texts, "" an empty one) or a url set (urls are the <url><loc> entries, NoUrl
\* one that new URL() rejects); a web maps locations to the documents served.
Index(subs) == [kind |-> "index", subs |-> subs, urls |-> <<>>]
UrlSet(urls) == [kind |-> "urlset", subs |-> <<>>, urls |-> urls]

extractSitemapIndexUrls(doc) == SelectSeqBy(doc.subs, Range(doc.subs) \ {""})
extractSitemapUrls(doc) == SelectSeqBy(doc.urls, Range(doc.urls) \ {NoUrl})

\* faulty variant: the failure of a child sitemap is not caught
CatchChild_rethrow(r) == r

\* try { childUrls = await parseSitemap(url) } catch { console.warn }
CatchChild(r) == [ok |-> TRUE, urls |-> r.urls]

\* parseSitemap(sitemapUrl) in a web where the locations in down do not answer
\* with a 2xx: [ok, urls], ok = FALSE when it throws
RECURSIVE parseSitemap(_, _, _)
RECURSIVE ParseChildren(_, _, _)
ParseChildren(names, web, down) ==
  IF names = <<>> THEN [ok |-> TRUE, urls |-> <<>>]
  ELSE LET c == CatchChild(parseSitemap(Head(names), web, down))
           rest == ParseChildren(Tail(names), web, down)
       IN IF c.ok /\ rest.ok THEN [ok |-> TRUE, urls |-> c.urls \o rest.urls]
          ELSE [ok |-> FALSE, urls |-> <<>>]

parseSitemap(name, web, down) ==
  IF name \notin DOMAIN web \/ name \in down THEN [ok |-> FALSE, urls |-> <<>>]
  ELSE IF web[name].kind = "index"
       THEN ParseChildren(extractSitemapIndexUrls(web[name]), web, down)
       ELSE [ok |-> TRUE, urls |-> extractSitemapUrls(web[name])]

\* findSitemapUrl: the candidate locations, in the order they are tried
SitemapCandidates == <<"/sitemap.xml", "/sitemap_index.xml", "/sitemap-index.xml">>

\* how a HEAD request can end: response.ok, a response that is not ok, fetch throws
HeadAnswers == [1..Len(SitemapCandidates) -> {"ok", "notok", "throws"}]

\* faulty variant: the first candidate is returned whatever it answered
findSitemapUrl_first(answers) == SitemapCandidates[1]

\* findSitemapUrl: the first candidate whose HEAD answers ok, "" for null
findSitemapUrl(answers) ==
  LET hits == {i \in DOMAIN answers : answers[i] = "ok"}
  IN IF hits = {} THEN "" ELSE SitemapCandidates[CHOOSE i \in hits : \A j \in hits : i <= j]

\* the sitemap documents of the site on host h: one url set at /sitemap.xml
SiteWeb(h) == [n \in {SitemapCandidates[1]} |-> UrlSet(SitemapUrls(h))]

\* what the site can answer to the HEAD requests: /sitemap.xml answers in any
\* of the three ways, the other candidate locations never answer ok
SiteHeadAnswers == {a \in HeadAnswers : \A i \in DOMAIN a : i > 1 => a[i] # "ok"}

\* faulty variant: nothing is filtered out
filterByBasePath_none(urls, seg) == urls

filterByBasePath(urls, seg) == SelectSeqBy(urls, {u \in Range(urls) : PathStartsWith(u, seg)})

RECURSIVE chunkArray(_, _)
chunkArray(a, size) ==
  IF a = <<>> THEN <<>> ELSE <<Take(a, size)>> \o chunkArray(Drop(a, size), size)

\* -------------------------------------------------------------------- fs.ts
\* A file path is [abs, segs]: a leading "/" or not, and its parts between
\* "/"; a resolved path is the sequence of its parts from the root.
Cwd == <<"home", "u">>

\* the normalisation node:path resolve() applies: "." and "" are dropped,
\* ".." removes the part before it (nothing at the root)
RECURSIVE NormalizeSegs(_, _)
NormalizeSegs(segs, acc) ==
  IF segs = <<>> THEN acc
  ELSE IF Head(segs) \in {".", ""} THEN NormalizeSegs(Tail(segs), acc)
  ELSE IF Head(segs) = ".."
       THEN NormalizeSegs(Tail(segs), IF acc = <<>> THEN <<>> ELSE SubSeq(acc, 1, Len(acc) - 1))
       ELSE NormalizeSegs(Tail(segs), Append(acc, Head(segs)))

\* resolve(p): against the working directory unless p is absolute
resolvePath(p) == NormalizeSegs(p.segs, IF p.abs THEN <<>> ELSE Cwd)

\* relative(from, to) of two resolved paths: up from `from` to the common
\* ancestor, then down to `to`
relativePath(from, to) ==
  LET common == {k \in 0..Len(from) : k <= Len(to) /\ SubSeq(from, 1, k) = SubSeq(to, 1, k)}
      k == CHOOSE x \in common : \A y \in common : y <= x
  IN [i \in 1..(Len(from) - k) |-> ".."] \o SubSeq(to, k + 1, Len(to))

\* the parts of the model whose text starts with ".."
DotDotNames == {"..", "..x.md"}

\* validatePath(filePath, baseDir): TRUE when it throws 'Path traversal detected'
validatePath(filePath, baseDir) ==
  LET resolvedBase == resolvePath(baseDir)
      resolvedPath == resolvePath(filePath)
      rel == relativePath(resolvedBase, resolvedPath)
  IN \/ rel # <<>> /\ rel[1] \in DotDotNames
     \/ NormalizeSegs(rel, resolvedBase) # resolvedPath

\* path.split('/')[0] || '.'
BaseDirOf(p) ==
  IF p.abs \/ p.segs = <<>> \/ p.segs[1] = "" THEN [abs |-> FALSE, segs |-> <<".">>]
  ELSE [abs |-> FALSE, segs |-> <<p.segs[1]>>]

\* `${options.outDir}/${pagePath}`
JoinPath(outDir, pagePath) == [abs |-> outDir.abs, segs |-> outDir.segs \o pagePath]

\* saveFile(path, content): rejects, or makes the directories and writes the
\* file at the resolved path
saveFile(p) ==
  IF validatePath(p, BaseDirOf(p)) THEN [rejected |-> TRUE, wrote |-> <<>>]
  ELSE [rejected |-> FALSE, wrote |-> <<resolvePath(p)>>]

\* ---------------------------------------------------------------- adapters
MD_ENDPOINT_DOMAINS == {"docs.anthropic.com", "docs.claude.com", "code.claude.com", "developers.openai.com"}
MDX_SITES == {"platform.claude.com", "docs.anthropic.com", "vercel.com", "nextjs.org"}

\* hostname.endsWith("." + domain), over the hosts of the model
SubdomainOf(h, d) == <<h, d>> \in {<<"beta.nextjs.org", "nextjs.org">>}

supportsMdEndpoint(h) == \E d \in MD_ENDPOINT_DOMAINS : h = d \/ SubdomainOf(h, d)
mdxMatch(u) == \E d \in MDX_SITES : u.host = d \/ SubdomainOf(u.host, d)

\* HTTP responses the three network adapters can get
MdResponses ==
  { [ok |-> TRUE,  ctype |-> "text/markdown", body |-> "markdown"],
    [ok |-> TRUE,  ctype |-> "text/html",     body |-> "html"],
    [ok |-> FALSE, ctype |-> "text/html",     body |-> "html"] }

\* faulty variant: the length of the body is not tested
fetchMdEndpoint_anyLength(r) ==
  IF ~r.ok THEN "Fetch failed"
  ELSE IF r.ctype = "application/json" THEN "Received JSON instead of Markdown"
  ELSE IF r.ctype = "text/html" THEN "Received HTML instead of Markdown (Content-Type)"
  ELSE IF r.body = "html" THEN "Received HTML instead of Markdown"
  ELSE IF r.body = "json" THEN "Received JSON instead of Markdown"
  ELSE ""

\* fetchMdEndpoint: "" when the body is returned, else the message of the Error thrown
fetchMdEndpoint(r) ==
  IF ~r.ok THEN "Fetch failed"
  ELSE IF r.ctype = "application/json" THEN "Received JSON instead of Markdown"
  ELSE IF r.ctype = "text/html" THEN "Received HTML instead of Markdown (Content-Type)"
  ELSE IF r.body = "html" THEN "Received HTML instead of Markdown"
  ELSE IF r.body = "json" THEN "Received JSON instead of Markdown"
  ELSE IF r.body = "short" THEN "Response too short to be valid Markdown"
  ELSE ""

\* mdxAdapter.fetchMarkdown (fetchText)
fetchText(r) ==
  IF ~r.ok THEN "Fetch failed"
  ELSE IF r.body = "html" THEN "HTML returned, not markdown"
  ELSE ""

\* jinaAdapter.fetchMarkdown
jinaFetch(r) ==
  IF ~r.ok THEN "Jina Reader error"
  ELSE IF r.body = "empty" THEN "Jina Reader returned empty content"
  ELSE ""

AdapterError(a, r) ==
  CASE a = "md-endpoint" -> fetchMdEndpoint(r)
    [] a = "mdx" -> fetchText(r)
    [] OTHER -> jinaFetch(r)

\* getAdapter(url, options): the one adapter selected for a URL
getAdapter(u, o) ==
  IF o.useMdEndpoint \/ supportsMdEndpoint(u.host) THEN "md-endpoint"
  ELSE IF mdxMatch(u) THEN "mdx"
  ELSE IF o.useJina THEN "jina"
  ELSE "playwright"

\* faulty variant: jina is attempted whether or not it was opted in
AfterMdx_always(o) == "jina"

\* fetchWithFallback: which adapter is attempted first, and which after a failure
AfterMdx(o) == IF o.useJina THEN "jina" ELSE "playwright"
AfterMdEndpoint(u, o) == IF mdxMatch(u) THEN "mdx" ELSE AfterMdx(o)
shouldTryMdEndpoint(u, o) == o.useMdEndpoint \/ supportsMdEndpoint(u.host)
FirstAdapter(u, o) == IF shouldTryMdEndpoint(u, o) THEN "md-endpoint" ELSE AfterMdEndpoint(u, o)
\* faulty variant: the chain gives up after the first failure
NextAdapter_giveup(a, u, o) == "none"

NextAdapter(a, u, o) ==
  CASE a = "md-endpoint" -> AfterMdEndpoint(u, o)
    [] a = "mdx" -> AfterMdx(o)
    [] a = "jina" -> "playwright"
    [] OTHER -> "none"

\* ------------------------------------------------- rendered pages (playwright)
\* the cleaned markdown of a rendered page, by the features validateContent reads
DocPage == [empty |-> FALSE, cloudflare |-> FALSE, denied |-> FALSE, short |-> FALSE, pattern |-> FALSE]
\* "Just a moment..." and nothing else
ChallengePage == [empty |-> FALSE, cloudflare |-> FALSE, denied |-> FALSE, short |-> TRUE, pattern |-> TRUE]
Renderings == {DocPage, ChallengePage}

\* faulty variant: the short-content patterns are tested before the access-denied markers
validateContent_patternsFirst(m) ==
  IF m.empty THEN "empty"
  ELSE IF m.cloudflare THEN "cloudflare"
  ELSE IF m.short /\ m.pattern THEN "bot-detection"
  ELSE IF m.denied THEN "access-denied"
  ELSE ""

\* validateContent: "" when the content passes, else the BlockedReason thrown
validateContent(m) ==
  IF m.empty THEN "empty"
  ELSE IF m.cloudflare THEN "cloudflare"
  ELSE IF m.denied THEN "access-denied"
  ELSE IF m.short /\ m.pattern THEN "bot-detection"
  ELSE ""

\* Markdown text is a sequence of pieces: white space, phrases the checks look
\* for, and prose; no marker or phrase straddles two pieces
Space == " "
Prose == "(ninety characters of prose)"
Pieces == {Space, Prose, "Just a moment...", "Please wait while we verify", "403 Forbidden",
           "Access denied", "cf_chl_opt"}

\* String.length of a piece
PieceLength(p) ==
  CASE p = Space -> 1
    [] p = Prose -> 90
    [] p = "Just a moment..." -> 16
    [] p = "Please wait while we verify" -> 27
    [] p = "403 Forbidden" -> 13
    [] p = "Access denied" -> 13
    [] p = "cf_chl_opt" -> 10
    [] p = "<!DOCTYPE html>" -> 15
    [] p = "{" -> 1
    [] p = "# Titles" -> 8
    [] p = "Some text." -> 10
    [] OTHER -> 0

RECURSIVE StringLength(_)
StringLength(s) == IF s = <<>> THEN 0 ELSE PieceLength(Head(s)) + StringLength(Tail(s))

\* String.prototype.trim(): the white space at both ends is dropped
Trim(s) ==
  LET solid == {i \in 1..Len(s) : s[i] # Space} IN
  IF solid = {} THEN <<>>
  ELSE SubSeq(s, CHOOSE i \in solid : \A j \in solid : i <= j,
                 CHOOSE i \in solid : \A j \in solid : i >= j)

\* trimmed.includes(...) of the three Cloudflare markers, of the three
\* access-denied markers (case-sensitive)
CloudflareMarkers == {"cf-browser-verification", "cf_chl_opt", "Cloudflare Ray ID"}
AccessDeniedMarkers == {"Access Denied", "403 Forbidden", "401 Unauthorized"}
IncludesAny(s, markers) == \E i \in 1..Len(s) : s[i] \in markers

\* BLOCKED_CONTENT_PATTERNS: the patterns closed by $ match the whole text,
\* the others its beginning; all ignore case
WholeTextPhrases == {"Just a moment..."}
LeadingPhrases == {"Please wait while we verify", "Access denied", "403 Forbidden"}
MatchesBlockedPattern(s) ==
  \/ Len(s) = 1 /\ s[1] \in WholeTextPhrases
  \/ Len(s) >= 1 /\ s[1] \in LeadingPhrases

\* if (trimmed.length < 100)
ShortLimit == 100

\* the conditions validateContent evaluates on markdown.trim()
Conditions(markdown) ==
  LET trimmed == Trim(markdown) IN
  [empty |-> trimmed = <<>>,
   cloudflare |-> IncludesAny(trimmed, CloudflareMarkers),
   denied |-> IncludesAny(trimmed, AccessDeniedMarkers),
   short |-> StringLength(trimmed) < ShortLimit,
   pattern |-> MatchesBlockedPattern(trimmed)]

\* cleanFooterPatterns(markdown): none of the footers is present in the pieces
\* of the model; the text comes back trimmed
cleanFooterPatterns(markdown) == Trim(markdown)

\* ------------------------------------------ responses of the .md endpoint
\* the content-type header is the list of the media types it names ("" is
\* the empty list; two header lines are joined into one value); the body is a
\* sequence of pieces
ContentTypes ==
  { <<>>, <<"text/markdown">>, <<"text/plain">>, <<"application/json">>, <<"text/html">>,
    <<"text/html", "text/markdown">> }
BodyPieces == {Space, "<!DOCTYPE html>", "{", "# Titles", "Some text."}

\* trimmedLower.startsWith('<!doctype') || '<html' || '<head' || '<body'
HtmlStarts == {"<!doctype html>"}
LowerCasePiece(p) == IF p = "<!DOCTYPE html>" THEN "<!doctype html>" ELSE p
StartsWithHtml(trimmed) == trimmed # <<>> /\ LowerCasePiece(trimmed[1]) \in HtmlStarts

\* trimmed.startsWith('{') || trimmed.startsWith('[')
JsonStarts == {"{", "["}
StartsWithJson(trimmed) == trimmed # <<>> /\ trimmed[1] \in JsonStarts

\* if (trimmed.length < 10)
MinMarkdownLength == 10

\* what fetchMdEndpoint reads of a response: res.ok, the two tests of the
\* content type, and the three tests of text.trim()
ReadResponse(res) ==
  LET trimmed == Trim(res.text) IN
  [ok |-> res.ok,
   ctype |-> IF "application/json" \in Range(res.contentType) THEN "application/json"
             ELSE IF "text/html" \in Range(res.contentType) /\ "text/markdown" \notin Range(res.contentType)
             THEN "text/html"
             ELSE "text/markdown",
   body |-> IF StartsWithHtml(trimmed) THEN "html"
            ELSE IF StartsWithJson(trimmed) THEN "json"
            ELSE IF StringLength(trimmed) < MinMarkdownLength THEN "short"
            ELSE "markdown"]

\* the outcome of fetchMdEndpoint for a response: the Error thrown, or text returned
MdEndpointResult(res) ==
  LET msg == fetchMdEndpoint(ReadResponse(res)) IN
  IF msg = "" THEN [threw |-> FALSE, message |-> "", value |-> res.text]
  ELSE [threw |-> TRUE, message |-> msg, value |-> <<>>]

\* the message validateContent gives the error, by reason (the host name left out)
BlockedMessage(reason) ==
  CASE reason = "empty" -> "Empty content extracted"
    [] reason = "cloudflare" -> "Cloudflare protection detected"
    [] reason = "access-denied" -> "Access denied"
    [] reason = "bot-detection" -> "Content blocked (bot detection)"
    [] OTHER -> "Content blocked"

\* an error object: its class, its reason (BlockedContentError only) and its
\* message, a sequence of lines, each line a sequence of the strings it is made of
BlockedContentError(reason) ==
  [cls |-> "BlockedContentError", reason |-> reason, message |-> <<<<BlockedMessage(reason)>>>>]
Error(msg) == [cls |-> "Error", reason |-> "", message |-> << <<msg>> >>]

\* `${e.adapter}: ${e.error.message}`
ErrorLine(e) == <<e.adapter, ": ">> \o e.error.message[1]

\* faulty variant: only the error of the last adapter is reported
AllAdaptersFailed_lastonly(errs) ==
  [cls |-> "Error", reason |-> "",
   message |-> << <<"All adapters failed">>, ErrorLine(errs[Len(errs)]) >>]

\* what fetchWithFallback throws once the last adapter has failed:
\* errors.map(e => `${e.adapter}: ${e.error.message}`).join('\n') under a head line
AllAdaptersFailed(errs) ==
  [cls |-> "Error", reason |-> "",
   message |-> << <<"All adapters failed">> >> \o [i \in 1..Len(errs) |-> ErrorLine(errs[i])]]

\* ------------------------------------------------------------------- state
VARIABLES
  opts,          \* CrawlOptions of the invocation
  entryIn,       \* the entry argument: [ok, protocol, url]
  pc,            \* position of crawl()
  exc,           \* the error crawl() is rejecting with, "none" otherwise
  visited,       \* Set<string> visited
  failed,        \* string[] failed
  blocked,       \* BlockedPage[] blocked
  counters,      \* NumberedCounter.counters
  pages,         \* the pages opened with newPage(), in order: how often each was closed
  queue,         \* crawlWithLinks: queue
  queued,        \* crawlWithLinks: queued
  batches,       \* crawlWithSitemap: the chunks not yet processed
  tasks,         \* the page-processing tasks; slot 0 is the entry page of link mode
  browser,       \* playwright.ts: let browser (0 is null)
  launched,      \* number of chromium.launch() that completed
  openSessions,  \* launched sessions not yet closed
  closeCalls,    \* number of closeBrowser() calls made by crawl
  written,       \* the files written, in write order: [path, url]
  fetchLog,      \* the URLs handed to fetchWithFallback, in call order
  faults,        \* number of failures injected so far
  call,          \* the last sitemap or helper call made: [fn, in, out]
  hist           \* crawlWithLinks: the entries pushed onto queue (enq) and the
                 \* entries spliced off it (deq), in order

vars == <<opts, entryIn, pc, exc, visited, failed, blocked, counters, pages, queue, queued,
          batches, tasks, browser, launched, openSessions, closeCalls, written,
          fetchLog, faults, call, hist>>

\* no error
NoError == [cls |-> "none", reason |-> "", message |-> <<>>]

\* no call made yet
NoCall == [fn |-> "none", in |-> <<>>, out |-> <<>>]

IdleTask == [pc |-> "idle", url |-> NoUrl, depth |-> 0, adapter |-> "none", tried |-> <<>>,
             errs |-> <<>>, inst |-> 0, page |-> 0, path |-> toLocalPath(NoUrl), outcome |-> "",
             thrown |-> NoError]

NewTask(u, d) == [IdleTask EXCEPT !.pc = "waiting", !.url = u, !.depth = d]

Options ==
  [useSitemap : BOOLEAN, depth : 0..MaxDepth, concurrency : 1..MaxConcurrency,
   numbered : BOOLEAN, useJina : BOOLEAN, useMdEndpoint : BOOLEAN]

\* the entry argument: a docs root on each host, one given with a trailing slash
\* and a fragment, one with the ftp scheme, and a string that new URL() cannot
\* parse; ok says whether new URL() parses it, protocol is url.protocol
Entries ==
  {[ok |-> TRUE, protocol |-> "https:", url |-> PE(h)] : h \in Hosts}
    \cup {[ok |-> TRUE, protocol |-> "https:", url |-> MkUrl("x.com", <<"docs">>, TRUE, "", "#top")]}
    \cup {[ok |-> TRUE, protocol |-> "ftp:", url |-> PE("x.com")]}
    \cup {[ok |-> FALSE, protocol |-> "", url |-> NoUrl]}

\* the state crawl starts from: nothing visited, queued, launched or written
Fresh ==
  /\ pc = "init"
  /\ exc = "none"
  /\ visited = {}
  /\ failed = <<>>
  /\ blocked = <<>>
  /\ counters = <<>>
  /\ pages = <<>>
  /\ queue = <<>>
  /\ queued = {}
  /\ batches = <<>>
  /\ tasks = [t \in Slots |-> IdleTask]
  /\ browser = 0
  /\ launched = 0
  /\ openSessions = {}
  /\ closeCalls = 0
  /\ written = <<>>
  /\ fetchLog = <<>>
  /\ faults = 0
  /\ call = NoCall
  /\ hist = [enq |-> <<>>, deq |-> <<>>]

Init ==
  /\ opts \in Options
  /\ entryIn \in Entries
  /\ Fresh

\* faulty variant: the configured value is ignored and the default is always used
EffConcurrency_default(o) == DefaultConcurrency

\* faulty variant: the batch size is one less than the configured value
EffConcurrency_less(o) == o.concurrency - 1

\* options.concurrency || 3
EffConcurrency(o) == IF o.concurrency = 0 THEN DefaultConcurrency ELSE o.concurrency

\* faulty variant: the visited test never fires
AlreadyVisited_never(u, vis) == FALSE

\* visited.has(url.toString())
AlreadyVisited(u, vis) == u \in vis

\* faulty variant: off by one, links of pages at depth maxDepth are still enqueued
WithinDepth_inclusive(d, maxDepth) == d <= maxDepth

\* if (depth < maxDepth)
WithinDepth(d, maxDepth) == d < maxDepth

\* faulty variant: no try/catch around the processing of a batch item
InsideTry_none(t) == FALSE

\* the try { ... } catch of a batch task; the entry page of link mode (slot 0) has none
InsideTry(t) == t # 0

\* tasks the limiter has started and that have not completed
Running == {t \in Slots : tasks[t].pc \notin {"idle", "waiting", "done"}}

\* ------------------------------------------------- steps of fetchWithFallback
\* start the attempt of adapter a: the network adapters issue their request;
\* playwright calls getBrowser(), which reads the shared browser variable
Attempt(rec, a) ==
  LET r == [rec EXCEPT !.adapter = a, !.tried = Append(@, a)] IN
  IF a # "playwright" THEN [r EXCEPT !.pc = "net"]
  ELSE IF browser = 0 THEN [r EXCEPT !.pc = "launching"]
  ELSE [r EXCEPT !.pc = "newPage", !.inst = browser]

\* fetchWithFallback resolved with {content, adapter}: the caller computes the
\* output path, takes a number when numbering is on, and calls saveFile
FetchOk(t, rec) ==
  LET lp == toLocalPath(rec.url)
      dir == getDirectoryPath(lp)
      num == CounterNext(counters, dir)
  IN /\ visited' = IF t = 0 THEN visited \cup {rec.url} ELSE visited
     /\ IF opts.numbered
        THEN /\ counters' = CounterSet(counters, dir, num)
             /\ tasks' = [tasks EXCEPT ![t] = [rec EXCEPT !.pc = "saving", !.path = addNumberedPrefix(lp, num)]]
        ELSE /\ counters' = counters
             /\ tasks' = [tasks EXCEPT ![t] = [rec EXCEPT !.pc = "saving", !.path = lp]]
     /\ UNCHANGED <<failed, blocked, pc, exc>>

\* an error e reaches the caller of fetchWithFallback / saveFile: the entry page
\* of link mode is outside any try, the batch tasks catch and classify
PageError(t, rec, e, what) ==
  /\ IF ~InsideTry(t)
     THEN /\ tasks' = [tasks EXCEPT ![t] = [rec EXCEPT !.pc = "done", !.outcome = "threw", !.thrown = e]]
          /\ exc' = what
          /\ pc' = "finally"
          /\ UNCHANGED <<failed, blocked>>
     ELSE IF e.cls = "BlockedContentError"
     THEN /\ tasks' = [tasks EXCEPT ![t] = [rec EXCEPT !.pc = "done", !.outcome = "blocked", !.thrown = e]]
          /\ blocked' = Append(blocked, [url |-> rec.url, reason |-> e.reason])
          /\ UNCHANGED <<failed, pc, exc>>
     ELSE /\ tasks' = [tasks EXCEPT ![t] = [rec EXCEPT !.pc = "done", !.outcome = "failed", !.thrown = e]]
          /\ failed' = Append(failed, rec.url)
          /\ UNCHANGED <<blocked, pc, exc>>

\* the adapter being attempted threw e: errors.push, then the next adapter, or
\* the aggregate Error when playwright was the one that failed
AdapterFailed(t, e) ==
  LET rec == [tasks[t] EXCEPT !.errs = Append(@, [adapter |-> tasks[t].adapter, error |-> e])]
      nxt == NextAdapter(tasks[t].adapter, tasks[t].url, opts)
  IN IF nxt = "none"
     THEN /\ PageError(t, rec, AllAdaptersFailed(rec.errs), "page-fetch")
          /\ UNCHANGED <<visited, counters>>
     ELSE /\ tasks' = [tasks EXCEPT ![t] = Attempt(rec, nxt)]
          /\ UNCHANGED <<visited, counters, failed, blocked, pc, exc>>

\* the request of md-endpoint, mdx or jina completes
NetDone(t) ==
  /\ tasks[t].pc = "net"
  /\ \E r \in MdResponses :
       LET msg == AdapterError(tasks[t].adapter, r) IN
       IF msg = ""
       THEN /\ FetchOk(t, tasks[t])
            /\ faults' = faults
       ELSE /\ faults < MaxFailures
            /\ faults' = faults + 1
            /\ AdapterFailed(t, Error(msg))
  /\ UNCHANGED <<hist, pages, call, opts, entryIn, queue, queued, batches, browser, launched, openSessions,
                 closeCalls, written, fetchLog>>

\* getBrowser: chromium.launch() completes; browser = <the new session>; return browser
LaunchDone(t) ==
  /\ tasks[t].pc = "launching"
  /\ launched' = launched + 1
  /\ openSessions' = openSessions \cup {launched + 1}
  /\ browser' = launched + 1
  /\ tasks' = [tasks EXCEPT ![t] = [@ EXCEPT !.pc = "newPage", !.inst = launched + 1]]
  /\ UNCHANGED <<hist, pages, call, opts, entryIn, pc, exc, visited, failed, blocked, counters, queue, queued,
                 batches, closeCalls, written, fetchLog, faults>>

\* browserInstance.newPage() completes: a fresh page, not closed yet
NewPage(t) ==
  /\ tasks[t].pc = "newPage"
  /\ pages' = Append(pages, 0)
  /\ tasks' = [tasks EXCEPT ![t] = [@ EXCEPT !.pc = "rendering", !.page = Len(pages) + 1]]
  /\ UNCHANGED <<hist, call, opts, entryIn, pc, exc, visited, failed, blocked, counters, queue, queued,
                 batches, browser, launched, openSessions, closeCalls, written, fetchLog, faults>>

\* faulty variant: the page is closed after the return only, not when the body throws
CloseOnExit_returnOnly(ps, id, threw) == IF threw THEN ps ELSE [ps EXCEPT ![id] = @ + 1]

\* try { ... } finally { await page.close() }: the body has returned or thrown
CloseOnExit(ps, id, threw) == [ps EXCEPT ![id] = @ + 1]

\* goto .. validateContent, and page.close() in the finally
Render(t) ==
  /\ tasks[t].pc = "rendering"
  /\ \/ \E m \in Renderings :
          IF validateContent(m) = ""
          THEN /\ FetchOk(t, tasks[t])
               /\ pages' = CloseOnExit(pages, tasks[t].page, FALSE)
               /\ faults' = faults
          ELSE /\ faults < MaxFailures
               /\ faults' = faults + 1
               /\ pages' = CloseOnExit(pages, tasks[t].page, TRUE)
               /\ AdapterFailed(t, BlockedContentError(validateContent(m)))
     \/ /\ faults < MaxFailures
        /\ faults' = faults + 1
        /\ pages' = CloseOnExit(pages, tasks[t].page, TRUE)
        /\ AdapterFailed(t, Error("Timeout 30000ms exceeded"))
  /\ UNCHANGED <<hist, call, opts, entryIn, queue, queued, batches, browser, launched, openSessions,
                 closeCalls, written, fetchLog>>

\* ------------------------------------------------------------ steps of crawl
\* faulty variant: any scheme is accepted
validateUrl_anyScheme(e) == IF ~e.ok THEN "Invalid URL" ELSE ""

\* validateUrl(input): "" when the URL is returned, else the message of the Error thrown
validateUrl(e) ==
  IF ~e.ok THEN "Invalid URL"
  ELSE IF e.protocol \notin {"http:", "https:"} THEN "Unsupported URL scheme"
  ELSE ""

\* main: validateUrl(url), then crawl(url, options): normalizePageUrl(entry),
\* then the mode branch; in link mode the entry page is fetched first
CrawlStart ==
  /\ pc = "init"
  /\ IF validateUrl(entryIn) # "" \/ ~entryIn.ok
     THEN /\ pc' = "threw"
          /\ exc' = "invalid-url"
          /\ UNCHANGED <<tasks, fetchLog>>
     ELSE IF opts.useSitemap
     THEN /\ pc' = "findSitemap"
          /\ UNCHANGED <<exc, tasks, fetchLog>>
     ELSE LET entryUrl == normalizePageUrl(entryIn.url) IN
          /\ pc' = "entry"
          /\ fetchLog' = Append(fetchLog, entryUrl)
          /\ tasks' = [tasks EXCEPT ![0] =
                         Attempt([NewTask(entryUrl, 0) EXCEPT !.pc = "chain"], FirstAdapter(entryUrl, opts))]
          /\ exc' = exc
  /\ UNCHANGED <<hist, pages, call, opts, entryIn, visited, failed, blocked, counters, queue, queued, batches,
                 browser, launched, openSessions, closeCalls, written, faults>>

\* sitemapUrl = await findSitemapUrl(entryUrl); null throws 'No sitemap found'
FindSitemap ==
  /\ pc = "findSitemap"
  /\ \E answers \in SiteHeadAnswers :
       LET sitemapUrl == findSitemapUrl(answers) IN
       /\ call' = [fn |-> "findSitemapUrl", in |-> answers, out |-> sitemapUrl]
       /\ IF sitemapUrl = ""
          THEN pc' = "finally" /\ exc' = "no-sitemap"
          ELSE pc' = "parseSitemap" /\ exc' = exc
  /\ UNCHANGED <<hist, pages, opts, entryIn, visited, failed, blocked, counters, queue, queued, batches,
                 tasks, browser, launched, openSessions, closeCalls, written, fetchLog, faults>>

\* urls = await parseSitemap(sitemapUrl), the base-path filter and chunkArray;
\* the GET of the sitemap answers or not
ParseSitemap ==
  /\ pc = "parseSitemap"
  /\ \E down \in {{}, {call.out}} :
       LET entryUrl == normalizePageUrl(entryIn.url)
           parsed == parseSitemap(call.out, SiteWeb(entryUrl.host), down)
           basePath == detectBasePath(entryUrl)
           urls == IF basePath # "" THEN filterByBasePath(parsed.urls, basePath) ELSE parsed.urls
       IN /\ call' = [fn |-> "parseSitemap",
                      in |-> [root |-> call.out, web |-> SiteWeb(entryUrl.host), down |-> down],
                      out |-> parsed]
          /\ IF parsed.ok
             THEN /\ batches' = chunkArray(urls, EffConcurrency(opts))
                  /\ pc' = "loop"
                  /\ exc' = exc
             ELSE /\ pc' = "finally"
                  /\ exc' = "sitemap-fetch"
                  /\ batches' = batches
  /\ UNCHANGED <<hist, pages, opts, entryIn, visited, failed, blocked, counters, queue, queued,
                 tasks, browser, launched, openSessions, closeCalls, written, fetchLog, faults>>

\* batch.map(item => limit(...)): slot i gets the i-th item of the batch
AssignBatch(items) ==
  [t \in Slots |-> IF t >= 1 /\ t <= Len(items) THEN NewTask(items[t].url, items[t].depth) ELSE IdleTask]

\* faulty variant: one entry more than the batch is removed from the queue
SpliceRest_extra(q, n) == Drop(q, n + 1)

\* queue.splice(0, n): what is left on the queue
SpliceRest(q, n) == Drop(q, n)

\* the head of the while / for loop: take the next batch, or leave the loop
NextBatch ==
  /\ pc = "loop"
  /\ IF opts.useSitemap
     THEN IF batches = <<>>
          THEN /\ pc' = "finally"
               /\ UNCHANGED <<batches, tasks>>
          ELSE /\ tasks' = AssignBatch([i \in 1..Len(Head(batches)) |-> [url |-> Head(batches)[i], depth |-> 0]])
               /\ batches' = Tail(batches)
               /\ pc' = "batch"
     ELSE /\ UNCHANGED batches
          /\ IF queue = <<>>
             THEN /\ pc' = "finally"
                  /\ UNCHANGED <<queue, tasks, hist>>
             ELSE LET batch == Take(queue, EffConcurrency(opts)) IN
                  /\ tasks' = AssignBatch(batch)
                  /\ queue' = SpliceRest(queue, EffConcurrency(opts))
                  /\ hist' = [hist EXCEPT !.deq = @ \o batch]
                  /\ pc' = "batch"
  /\ IF opts.useSitemap THEN UNCHANGED <<queue, hist>> ELSE TRUE
  /\ UNCHANGED <<pages, call, opts, entryIn, exc, visited, failed, blocked, counters, queued,
                 browser, launched, openSessions, closeCalls, written, fetchLog, faults>>

\* the limiter starts the next task of the batch: the visited test, then
\* fetchWithFallback up to its first await
StartTask(t) ==
  /\ pc = "batch"
  /\ t >= 1
  /\ tasks[t].pc = "waiting"
  /\ \A s \in 1..(t - 1) : tasks[s].pc # "waiting"
  /\ Cardinality(Running) < EffConcurrency(opts)
  /\ LET u == tasks[t].url IN
     IF AlreadyVisited(u, visited)
     THEN /\ tasks' = [tasks EXCEPT ![t] = [@ EXCEPT !.pc = "done", !.outcome = "skipped"]]
          /\ UNCHANGED <<visited, fetchLog>>
     ELSE /\ visited' = visited \cup {u}
          /\ fetchLog' = Append(fetchLog, u)
          /\ tasks' = [tasks EXCEPT ![t] = Attempt(tasks[t], FirstAdapter(u, opts))]
  /\ UNCHANGED <<hist, pages, call, opts, entryIn, pc, exc, failed, blocked, counters, queue, queued, batches,
                 browser, launched, openSessions, closeCalls, written, faults>>

\* faulty variant: only the visited set gates the push
FreshLinks_visitedOnly(links, vis, qd) == SelectSeqBy(links, Range(links) \ vis)

\* links of a saved page that are neither visited nor queued
FreshLinks(links, vis, qd) == SelectSeqBy(links, Range(links) \ (vis \cup qd))

\* saveFile completes
SaveDone(t) ==
  /\ tasks[t].pc = "saving"
  /\ \/ /\ written' = Append(written, [path |-> tasks[t].path, url |-> tasks[t].url])
        /\ tasks' = [tasks EXCEPT ![t] = [@ EXCEPT !.pc = "done", !.outcome = "saved"]]
        /\ faults' = faults
        /\ UNCHANGED <<failed, blocked, exc>>
        /\ LET links == extractDocLinks(PageLinks(tasks[t].url), tasks[t].url) IN
           IF t = 0
           THEN LET unvisitedLinks == SelectSeqBy(links, Range(links) \ visited)
                    pushed == IF opts.depth > 0
                              THEN [i \in 1..Len(unvisitedLinks) |-> [url |-> unvisitedLinks[i], depth |-> 1]]
                              ELSE <<>>
                IN /\ queue' = pushed
                   /\ hist' = [hist EXCEPT !.enq = @ \o pushed]
                   /\ queued' = Range(unvisitedLinks)
                   /\ pc' = "loop"
           ELSE IF ~opts.useSitemap /\ WithinDepth(tasks[t].depth, opts.depth)
           THEN LET fresh == FreshLinks(links, visited, queued)
                    pushed == [i \in 1..Len(fresh) |-> [url |-> fresh[i], depth |-> tasks[t].depth + 1]]
                IN /\ queue' = queue \o pushed
                   /\ hist' = [hist EXCEPT !.enq = @ \o pushed]
                   /\ queued' = queued \cup Range(fresh)
                   /\ pc' = pc
           ELSE UNCHANGED <<queue, queued, pc, hist>>
     \/ /\ faults < MaxFailures
        /\ faults' = faults + 1
        /\ PageError(t, tasks[t], Error("save failed"), "page-save")
        /\ UNCHANGED <<written, queue, queued, hist>>
  /\ UNCHANGED <<pages, call, opts, entryIn, visited, counters, batches, browser, launched, openSessions,
                 closeCalls, fetchLog>>

\* faulty variant: the first task to complete resolves the wait
BatchSettled_any == \E t \in Slots : tasks[t].pc = "done"

\* Promise.all(batch.map(...)): every task of the batch has completed
BatchSettled == \A t \in Slots : tasks[t].pc \in {"idle", "done"}

\* await Promise.all(...) resolves and the completed tasks are dropped
BatchDone ==
  /\ pc = "batch"
  /\ BatchSettled
  /\ pc' = "loop"
  /\ tasks' = [t \in Slots |-> IF tasks[t].pc = "done" THEN IdleTask ELSE tasks[t]]
  /\ UNCHANGED <<hist, pages, call, opts, entryIn, exc, visited, failed, blocked, counters, queue, queued, batches,
                 browser, launched, openSessions, closeCalls, written, fetchLog, faults>>

\* finally { await closeBrowser() }, then crawl resolves or rejects
Finally ==
  /\ pc = "finally"
  /\ closeCalls' = closeCalls + 1
  /\ openSessions' = IF browser # 0 THEN openSessions \ {browser} ELSE openSessions
  /\ browser' = 0
  /\ pc' = IF exc = "none" THEN "done" ELSE "threw"
  /\ UNCHANGED <<hist, pages, call, opts, entryIn, exc, visited, failed, blocked, counters, queue, queued, batches,
                 tasks, launched, written, fetchLog, faults>>

\* the counts of the summary crawl prints once the mode function has returned
ReportedSaved == Cardinality(visited)
ReportedBlocked == Len(blocked)
ReportedFailed == Len(failed)

Next ==
  \/ CrawlStart
  \/ FindSitemap
  \/ ParseSitemap
  \/ NextBatch
  \/ \E t \in Slots : StartTask(t)
  \/ \E t \in Slots : NetDone(t)
  \/ \E t \in Slots : LaunchDone(t)
  \/ \E t \in Slots : NewPage(t)
  \/ \E t \in Slots : Render(t)
  \/ \E t \in Slots : SaveDone(t)
  \/ BatchDone
  \/ Finally

Spec == Init /\ [][Next]_vars

\* the event loop runs every continuation that is ready, and every request,
\* launch, render and write that was issued completes or fails
\* link-follow crawls of every site, depth and concurrency of the model
InitLinks ==
  /\ Init
  /\ entryIn.ok
  /\ ~opts.useSitemap /\ ~opts.numbered /\ ~opts.useJina /\ ~opts.useMdEndpoint

NextLinks ==
  \/ CrawlStart
  \/ NextBatch
  \/ \E t \in Slots : StartTask(t)
  \/ \E t \in Slots : NetDone(t)
  \/ \E t \in Slots : LaunchDone(t)
  \/ \E t \in Slots : NewPage(t)
  \/ \E t \in Slots : Render(t)
  \/ \E t \in Slots : SaveDone(t)
  \/ BatchDone
  \/ Finally

SpecLive == InitLinks /\ [][NextLinks]_vars /\ WF_vars(NextLinks)

\* link-follow crawls of deep.dev, up to three levels deep
InitDeep ==
  /\ opts \in [useSitemap : {FALSE}, depth : 0..MaxDeepDepth, concurrency : 1..MaxConcurrency,
                numbered : {FALSE}, useJina : BOOLEAN, useMdEndpoint : {FALSE}]
  /\ entryIn = [ok |-> TRUE, protocol |-> "https:", url |-> PE(DeepHost)]
  /\ Fresh

SpecDeep == InitDeep /\ [][NextLinks]_vars

\* ------------------------------------------- the pure helpers, called directly
\* sequences over S of length at most n
SeqsUpTo(S, n) == UNION {[1..k -> S] : k \in 0..n}

\* base URLs and link targets handed to extractDocLinks
ProbeBases ==
  {U("x.com", <<"docs", "a">>), U("x.com", <<"en", "docs", "intro">>), U("x.com", <<"blog", "p">>)}

ProbeTargets ==
  { Rel(<<"docs", "b">>),
    Link(U("other.com", <<"y">>)),
    Rel(<<"docs", "c.png">>),
    FragOnly(NoUrl),
    MailTo,
    JavaScript,
    Link(MkUrl("x.com", <<"docs", "guide", "c">>, FALSE, "?v=2", "#s1")),
    Rel(<<"blog", "post">>),
    Rel(<<"en", "docs", "setup">>) }

\* path segments of the URLs handed to toLocalPath
ProbeSegments == {"docs", "guide", "setup", "en", "API"}

\* sitemap webs handed to parseSitemap: an index of two url sets, an index with
\* an empty entry, an unparseable <loc> and a child that does not exist, an
\* index of an index, and a plain url set
ProbeWebs ==
  LET h == "x.com"
      root == SitemapCandidates[1]
  IN { [n \in {root, "/s1.xml", "/s2.xml"} |->
          CASE n = root -> Index(<<"/s1.xml", "/s2.xml">>)
            [] n = "/s1.xml" -> UrlSet(<<PA(h), PB(h)>>)
            [] OTHER -> UrlSet(<<PC(h), PD(h)>>)],
       [n \in {root, "/s1.xml", "/s2.xml"} |->
          CASE n = root -> Index(<<"/s1.xml", "", "/gone.xml", "/s2.xml">>)
            [] n = "/s1.xml" -> UrlSet(<<PA(h), NoUrl, PB(h)>>)
            [] OTHER -> UrlSet(<<PB(h)>>)],
       [n \in {root, "/i2.xml", "/s1.xml", "/s2.xml"} |->
          CASE n = root -> Index(<<"/i2.xml", "/s2.xml">>)
            [] n = "/i2.xml" -> Index(<<"/s1.xml">>)
            [] n = "/s1.xml" -> UrlSet(<<PA(h), PB(h)>>)
            [] OTHER -> UrlSet(<<PC(h), PD(h)>>)],
       [n \in {root} |-> UrlSet(SitemapUrls(h))] }

ProbeLocations == {SitemapCandidates[1], "/i2.xml", "/s1.xml", "/s2.xml"}

\* output directories (relative, nested, absolute) and the parts of the page
\* paths handed to saveFile under them
ProbeOutDirs ==
  { [abs |-> FALSE, segs |-> <<"docs">>],
    [abs |-> FALSE, segs |-> <<"docs", "hono">>],
    [abs |-> TRUE,  segs |-> <<"tmp", "out">>] }

ProbeFileParts == {"x.md", "..x.md", "..", "other", "guide"}

\* the variables of the crawl, which a direct call of a helper leaves alone;
\* each behaviour of SpecFn makes one call
crawlVars == <<opts, entryIn, pc, exc, visited, failed, blocked, counters, pages, queue, queued,
               batches, tasks, browser, launched, openSessions, closeCalls, written,
               fetchLog, faults, hist>>

CallExtractDocLinks ==
  /\ call = NoCall
  /\ \E base \in ProbeBases, content \in SeqsUpTo(ProbeTargets, MaxLinks) :
       call' = [fn |-> "extractDocLinks", in |-> [content |-> content, base |-> base],
                out |-> extractDocLinks(content, base)]
  /\ UNCHANGED crawlVars

\* the urls of a sitemap handed to the base-path filter of crawlWithSitemap
ProbeSitemapUrls ==
  {U("x.com", <<"docs", "b">>), U("x.com", <<"en", "docs", "setup">>), U("x.com", <<"blog", "post">>)}

\* crawlWithSitemap: basePath = detectBasePath(entryUrl); if (basePath) urls = filterByBasePath(urls, basePath)
CallFilterByBasePath ==
  /\ call = NoCall
  /\ \E entryUrl \in ProbeBases, urls \in SeqsUpTo(ProbeSitemapUrls, MaxSegments) :
       LET basePath == detectBasePath(entryUrl) IN
       call' = [fn |-> "filterByBasePath", in |-> [urls |-> urls, entry |-> entryUrl],
                out |-> IF basePath # "" THEN filterByBasePath(urls, basePath) ELSE urls]
  /\ UNCHANGED crawlVars

CallToLocalPath ==
  /\ call = NoCall
  /\ \E p \in SeqsUpTo(ProbeSegments, MaxSegments), sl \in BOOLEAN :
       LET u == MkUrl("x.com", p, sl /\ p # <<>>, "", "") IN
       call' = [fn |-> "toLocalPath", in |-> u, out |-> toLocalPath(u)]
  /\ UNCHANGED crawlVars

CallParseSitemap ==
  /\ call = NoCall
  /\ \E web \in ProbeWebs, down \in SUBSET ProbeLocations :
       call' = [fn |-> "parseSitemap",
                in |-> [root |-> SitemapCandidates[1], web |-> web, down |-> down],
                out |-> parseSitemap(SitemapCandidates[1], web, down)]
  /\ UNCHANGED crawlVars

CallSaveFile ==
  /\ call = NoCall
  /\ \E outDir \in ProbeOutDirs, pagePath \in SeqsUpTo(ProbeFileParts, MaxSegments) \ {<<>>} :
       LET path == JoinPath(outDir, pagePath) IN
       call' = [fn |-> "saveFile", in |-> [outDir |-> outDir, path |-> path], out |-> saveFile(path)]
  /\ UNCHANGED crawlVars

\* the Markdown turndown produces, cleaned and validated as fetchMarkdown does
CallValidateContent ==
  /\ call = NoCall
  /\ \E markdown \in SeqsUpTo(Pieces, MaxPieces) :
       LET cleanedMarkdown == cleanFooterPatterns(markdown) IN
       call' = [fn |-> "validateContent", in |-> cleanedMarkdown,
                out |-> validateContent(Conditions(cleanedMarkdown))]
  /\ UNCHANGED crawlVars

\* fetchMdEndpoint gets a response
CallFetchMdEndpoint ==
  /\ call = NoCall
  /\ \E ok \in BOOLEAN, ct \in ContentTypes, text \in SeqsUpTo(BodyPieces, MaxPieces) :
       LET res == [ok |-> ok, contentType |-> ct, text |-> text] IN
       call' = [fn |-> "fetchMdEndpoint", in |-> res, out |-> MdEndpointResult(res)]
  /\ UNCHANGED crawlVars

\* --------------------------------- site configuration of the playwright adapter
\* the keys of siteConfigs: host names, and one "__<framework>__" per framework
ConfiguredHosts == {"developers.cloudflare.com", "platform.openai.com", "docs.x.ai", "ai.google.dev"}
Frameworks == <<"docusaurus", "vitepress", "starlight", "mkdocs", "sphinx", "gitbook">>
FrameworkKey(f) == <<"__", f, "__">>
siteConfigKeys == {<<h>> : h \in ConfiguredHosts} \cup {FrameworkKey(Frameworks[i]) : i \in 1..Len(Frameworks)}
defaultSiteConfig == <<"default">>

\* getSiteConfig(url): the configuration of the exact host name, else the default
getSiteConfig(host) == IF <<host>> \in siteConfigKeys THEN <<host>> ELSE defaultSiteConfig

\* getFrameworkConfig(framework): siteConfigs[`__${framework}__`] || null
NoConfig == <<>>
getFrameworkConfig(f) == IF FrameworkKey(f) \in siteConfigKeys THEN FrameworkKey(f) ELSE NoConfig

\* what a page shows to detectFrameworkFromPage: each hit is one selector of a
\* framework found in the DOM, or one of its htmlPatterns found in the HTML
HitKinds == {"selector", "html"}
Hits == [framework : Range(Frameworks), kind : HitKinds]

\* pattern.weight, and the score a framework gets: weight per selector found,
\* weight / 2 per html pattern found
PatternWeight == 10
ScoreOf(hits, f) ==
  PatternWeight * Cardinality({i \in 1..Len(hits) : hits[i] = [framework |-> f, kind |-> "selector"]})
  + (PatternWeight \div 2) * Cardinality({i \in 1..Len(hits) : hits[i] = [framework |-> f, kind |-> "html"]})

\* Object.entries(results): the frameworks with a score above 0, in the order of frameworkPatterns
ScoreEntries(hits) ==
  LET scored == SelectSeq(Frameworks, LAMBDA f : ScoreOf(hits, f) > 0)
  IN [i \in 1..Len(scored) |-> [framework |-> scored[i], score |-> ScoreOf(hits, scored[i])]]

\* for (const [framework, score] of entries) if (score > maxScore) { ... }
RECURSIVE ScanMax(_, _, _)
ScanMax(entries, maxFramework, maxScore) ==
  IF entries = <<>> THEN [framework |-> maxFramework, maxScore |-> maxScore]
  ELSE IF Head(entries).score > maxScore
  THEN ScanMax(Tail(entries), Head(entries).framework, Head(entries).score)
  ELSE ScanMax(Tail(entries), maxFramework, maxScore)

\* maxScore > 0 ? Math.min(maxScore / 30, 1) : 0, as a fraction
FullScore == 30
Confidence(maxScore) ==
  IF maxScore <= 0 THEN [num |-> 0, den |-> 1]
  ELSE IF maxScore >= FullScore THEN [num |-> 1, den |-> 1]
  ELSE [num |-> maxScore, den |-> FullScore]

detectFrameworkFromPage(hits) ==
  LET top == ScanMax(ScoreEntries(hits), "custom", 0)
  IN [framework |-> top.framework, confidence |-> Confidence(top.maxScore)]

\* faulty variant: the threshold is 0.5
Confident_half(c) == c.num * 2 >= c.den

\* confidence >= 0.3
Confident(c) == c.num * 10 >= 3 * c.den

\* fetchMarkdown: config = getSiteConfig(url); when it is the default one, a
\* detected framework that is confident enough and has a configuration replaces it
SelectConfig(host, hits) ==
  LET config == getSiteConfig(host)
      isDefaultConfig == config = defaultSiteConfig
      detected == detectFrameworkFromPage(hits)
      frameworkConfig == getFrameworkConfig(detected.framework)
  IN IF isDefaultConfig /\ detected.framework # "custom" /\ Confident(detected.confidence)
        /\ frameworkConfig # NoConfig
     THEN frameworkConfig
     ELSE config

ProbeHosts == {"developers.cloudflare.com", "platform.openai.com", "x.com"}

\* a page of a host is rendered and its configuration selected
CallSelectConfig ==
  /\ call = NoCall
  /\ \E host \in ProbeHosts, hits \in SeqsUpTo(Hits, MaxHits) :
       call' = [fn |-> "selectConfig", in |-> [host |-> host, hits |-> hits],
                out |-> SelectConfig(host, hits)]
  /\ UNCHANGED crawlVars

\* ------------------------------------------ parseSitemap, one await at a time
\* webs in which an index lists itself, and two indexes list each other
CyclicWebs ==
  LET h == "x.com"
      root == SitemapCandidates[1]
  IN { [n \in {root, "/s1.xml"} |->
          IF n = root THEN Index(<<root, "/s1.xml">>) ELSE UrlSet(<<PA(h), PB(h)>>)],
       [n \in {root, "/i2.xml"} |->
          IF n = root THEN Index(<<"/i2.xml">>) ELSE Index(<<root>>)] }

\* a call of parseSitemap in progress: its argument, whether it awaits its
\* fetch or walks the children of an index, the children left, the urls so far
Frame(name) == [name |-> name, at |-> "fetch", rest |-> <<>>, urls |-> <<>>]

\* the innermost call returns or throws r = [ok, urls]: the caller's try/catch
\* takes the urls of a child that returned; the outermost call ends the run
Unwind(run, r) ==
  LET below == SubSeq(run.stack, 1, Len(run.stack) - 1) IN
  IF below = <<>>
  THEN [run EXCEPT !.stack = <<>>, !.done = TRUE, !.result = r]
  ELSE [run EXCEPT !.stack = [below EXCEPT ![Len(below)].urls = @ \o CatchChild(r).urls]]

\* parseSitemap(sitemapUrl) is called on a web
ParseStart ==
  /\ call = NoCall
  /\ \E web \in ProbeWebs \cup CyclicWebs :
       call' = [fn |-> "parseSitemapRun",
                in |-> [root |-> SitemapCandidates[1], web |-> web],
                out |-> [stack |-> <<Frame(SitemapCandidates[1])>>, fetched |-> <<>>, done |-> FALSE,
                         result |-> [ok |-> FALSE, urls |-> <<>>]]]
  /\ UNCHANGED crawlVars

\* await fetch(sitemapUrl), response.text(): not ok throws, an index starts
\* the loop over its children, a url set returns its urls
ParseFetch ==
  /\ call.fn = "parseSitemapRun" /\ ~call.out.done
  /\ LET run == call.out
         web == call.in.web
         top == run.stack[Len(run.stack)]
         fetchedRun == [run EXCEPT !.fetched = Append(@, top.name)]
     IN /\ top.at = "fetch"
        /\ call' = [call EXCEPT !.out =
                      IF top.name \notin DOMAIN web THEN Unwind(fetchedRun, [ok |-> FALSE, urls |-> <<>>])
                      ELSE IF web[top.name].kind = "index"
                      THEN [fetchedRun EXCEPT !.stack[Len(run.stack)] =
                              [top EXCEPT !.at = "children", !.rest = extractSitemapIndexUrls(web[top.name])]]
                      ELSE Unwind(fetchedRun, [ok |-> TRUE, urls |-> extractSitemapUrls(web[top.name])])]
  /\ UNCHANGED crawlVars

\* for (const url of sitemapUrls) { await parseSitemap(url) }: the next child is called
ParseDescend ==
  /\ call.fn = "parseSitemapRun" /\ ~call.out.done
  /\ LET run == call.out
         top == run.stack[Len(run.stack)]
     IN /\ top.at = "children" /\ top.rest # <<>>
        /\ Len(run.stack) < MaxNesting
        /\ call' = [call EXCEPT !.out.stack =
                      Append([run.stack EXCEPT ![Len(run.stack)].rest = Tail(@)], Frame(Head(top.rest)))]
  /\ UNCHANGED crawlVars

\* the loop over the children is over: return urls
ParseReturn ==
  /\ call.fn = "parseSitemapRun" /\ ~call.out.done
  /\ LET run == call.out
         top == run.stack[Len(run.stack)]
     IN /\ top.at = "children" /\ top.rest = <<>>
        /\ call' = [call EXCEPT !.out = Unwind(run, [ok |-> TRUE, urls |-> top.urls])]
  /\ UNCHANGED crawlVars

\* no crawl is running: the default options, no entry
InitFn ==
  /\ Init
  /\ opts = [useSitemap |-> FALSE, depth |-> 1, concurrency |-> 1, numbered |-> FALSE,
             useJina |-> FALSE, useMdEndpoint |-> FALSE]
  /\ entryIn = [ok |-> FALSE, protocol |-> "", url |-> NoUrl]

NextFn ==
  \/ CallExtractDocLinks
  \/ CallFilterByBasePath
  \/ CallToLocalPath
  \/ CallParseSitemap
  \/ CallSaveFile
  \/ CallValidateContent
  \/ CallFetchMdEndpoint
  \/ CallSelectConfig
  \/ ParseStart
  \/ ParseFetch
  \/ ParseDescend
  \/ ParseReturn

SpecFn == InitFn /\ [][NextFn]_vars

\* --------------------------------------- two crawls running in one process
\* The module variable browser of playwright.ts is shared by every crawl of
\* the process.  Each of the two crawls fetches its pages one after the
\* other, through Jina or through the rendering engine, and ends in the
\* finally block of crawl, which calls closeBrowser.  The state is kept in
\* call.out: browser (0 is null), the sessions launched and still open, and
\* for each crawl its position, the pages it has left, the session its
\* fetch holds and the number of fetches that threw.
MaxPairPages == 2
Crawls == {1, 2}

\* crawl(entry, options) is called twice without awaiting the first call
PairStart ==
  /\ call = NoCall
  /\ \E useJina \in [Crawls -> BOOLEAN], n \in [Crawls -> 1..MaxPairPages] :
       call' = [fn |-> "crawlPair",
                in |-> [useJina |-> useJina, pages |-> n],
                out |-> [browser |-> 0, launched |-> 0, open |-> {},
                         crawl |-> [c \in Crawls |-> [pc |-> "loop", left |-> n[c], inst |-> 0, threw |-> 0]]]]
  /\ UNCHANGED crawlVars

PairRunning == call.fn = "crawlPair"

\* the fetch of a page has returned or thrown: the loop goes on to the next
\* page, or the mode function returns and crawl enters its finally block
PageSettled(r, failedFetch) ==
  [r EXCEPT !.pc = IF r.left = 1 THEN "finally" ELSE "loop",
            !.left = @ - 1,
            !.inst = 0,
            !.threw = IF failedFetch THEN @ + 1 ELSE @]

\* the next page: the Jina adapter issues its request; the playwright adapter
\* calls getBrowser(), which reads the shared browser variable
PairFetch(c) ==
  /\ PairRunning
  /\ call.out.crawl[c].pc = "loop"
  /\ call' = [call EXCEPT !.out.crawl[c] =
                IF call.in.useJina[c] THEN [@ EXCEPT !.pc = "net"]
                ELSE IF call.out.browser = 0 THEN [@ EXCEPT !.pc = "launching"]
                ELSE [@ EXCEPT !.pc = "newPage", !.inst = call.out.browser]]
  /\ UNCHANGED crawlVars

\* the request of the Jina adapter completes
PairNetDone(c) ==
  /\ PairRunning
  /\ call.out.crawl[c].pc = "net"
  /\ call' = [call EXCEPT !.out.crawl[c] = PageSettled(@, FALSE)]
  /\ UNCHANGED crawlVars

\* getBrowser: chromium.launch() completes; browser = <the new session>; return browser
PairLaunchDone(c) ==
  /\ PairRunning
  /\ call.out.crawl[c].pc = "launching"
  /\ call' = [call EXCEPT !.out.launched = @ + 1,
                          !.out.open = @ \cup {call.out.launched + 1},
                          !.out.browser = call.out.launched + 1,
                          !.out.crawl[c] = [@ EXCEPT !.pc = "newPage", !.inst = call.out.launched + 1]]
  /\ UNCHANGED crawlVars

\* browserInstance.newPage(): rejects when the session has been closed
PairNewPage(c) ==
  /\ PairRunning
  /\ call.out.crawl[c].pc = "newPage"
  /\ call' = [call EXCEPT !.out.crawl[c] =
                IF @.inst \in call.out.open THEN [@ EXCEPT !.pc = "rendering"]
                ELSE PageSettled(@, TRUE)]
  /\ UNCHANGED crawlVars

\* goto .. validateContent and page.close(): rejects when the session has
\* been closed under the page
PairRender(c) ==
  /\ PairRunning
  /\ call.out.crawl[c].pc = "rendering"
  /\ call' = [call EXCEPT !.out.crawl[c] = PageSettled(@, @.inst \notin call.out.open)]
  /\ UNCHANGED crawlVars

\* finally { await closeBrowser() }: if (browser) await browser.close() ...
PairCloseBrowser(c) ==
  /\ PairRunning
  /\ call.out.crawl[c].pc = "finally"
  /\ call' = IF call.out.browser # 0
             THEN [call EXCEPT !.out.open = @ \ {call.out.browser},
                               !.out.crawl[c].pc = "closing"]
             ELSE [call EXCEPT !.out.crawl[c].pc = "done"]
  /\ UNCHANGED crawlVars

\* ... browser = null, once browser.close() has completed; crawl settles
PairCloseDone(c) ==
  /\ PairRunning
  /\ call.out.crawl[c].pc = "closing"
  /\ call' = [call EXCEPT !.out.browser = 0, !.out.crawl[c].pc = "done"]
  /\ UNCHANGED crawlVars

NextPair ==
  \/ PairStart
  \/ \E c \in Crawls : PairFetch(c)
  \/ \E c \in Crawls : PairNetDone(c)
  \/ \E c \in Crawls : PairLaunchDone(c)
  \/ \E c \in Crawls : PairNewPage(c)
  \/ \E c \in Crawls : PairRender(c)
  \/ \E c \in Crawls : PairCloseBrowser(c)
  \/ \E c \in Crawls : PairCloseDone(c)

SpecPair == InitFn /\ [][NextPair]_vars

\* ==================================================================== claims
EntryUrl == normalizePageUrl(entryIn.url)
EntryAccepted == entryIn.ok /\ entryIn.protocol \in {"http:", "https:"}
LinkMode == EntryAccepted /\ ~opts.useSitemap
SitemapMode == EntryAccepted /\ opts.useSitemap
WrittenUrls == {written[i].url : i \in 1..Len(written)}
BlockedUrls == {blocked[i].url : i \in 1..Len(blocked)}

\* C1: within one crawl, in link mode and in sitemap mode and for every
\* concurrency, fetchWithFallback is called at most once for any URL: no URL
\* occurs twice in the log of the calls.
C1_FetchedAtMostOnce ==
  \A i, j \in 1..Len(fetchLog) : fetchLog[i] = fetchLog[j] => i = j

\* a URL listed twice in the sitemap came up again and was skipped
C1_Witness ==
  \E t \in Slots : tasks[t].outcome = "skipped" /\ tasks[t].url \in Range(fetchLog)

\* the pages a page links to, as the crawl sees them
LinkTargets(u) == Range(extractDocLinks(PageLinks(u), u))

RECURSIVE WithinHops(_, _)
WithinHops(e, k) ==
  IF k = 0 THEN {e}
  ELSE LET S == WithinHops(e, k - 1) IN S \cup UNION {LinkTargets(u) : u \in S}

\* C2: in link mode with maxDepth = d every fetched page is within d link hops
\* of the entry page, and with maxDepth = 0 a crawl that returns has fetched
\* the entry page and nothing else.
C2_DepthBound ==
  LinkMode =>
    /\ Range(fetchLog) \subseteq WithinHops(EntryUrl, opts.depth)
    /\ (opts.depth = 0 /\ pc = "done" => fetchLog = <<EntryUrl>>)

\* a depth-1 crawl returned after saving a page that links one hop further
C2_Witness ==
  /\ LinkMode /\ opts.depth = 1 /\ pc = "done"
  /\ \E u \in WrittenUrls : u # EntryUrl /\ LinkTargets(u) \ WithinHops(EntryUrl, 1) # {}

\* a batch task whose rendered page validateContent rejected as a bot challenge
RenderedChallenge(t) ==
  /\ t >= 1
  /\ tasks[t].pc = "done"
  /\ \E i \in 1..Len(tasks[t].errs) :
       /\ tasks[t].errs[i].adapter = "playwright"
       /\ tasks[t].errs[i].error = BlockedContentError("bot-detection")

\* C3: a page whose rendered content is a bot-challenge page is recorded in
\* blocked with reason bot-detection and not in failed.
C3_ChallengeIsBlocked ==
  \A t \in Slots :
    RenderedChallenge(t) =>
      /\ [url |-> tasks[t].url, reason |-> "bot-detection"] \in Range(blocked)
      /\ tasks[t].url \notin Range(failed)

\* C4: crawl rejects only for invocation-level failures (invalid entry URL,
\* sitemap unavailable), never because a page could not be fetched or saved.
C4_RejectsOnlyInvocation ==
  pc = "threw" => exc \in {"invalid-url", "no-sitemap", "sitemap-fetch"}

\* every URL handed to the batches so far
EverQueued ==
  IF opts.useSitemap THEN {} ELSE IF opts.depth > 0 THEN queued ELSE {}

\* C5: an error raised while a batch item is processed is caught at the item
\* and becomes a failed or blocked record; it never makes crawl reject, and
\* the other items and the later batches are still processed: when crawl
\* returns, every queued URL has been processed and every processed URL is
\* saved, failed or blocked.
C5_ItemErrorsContained ==
  /\ \A t \in Slots : t >= 1 => tasks[t].outcome # "threw"
  /\ pc = "batch" => exc = "none"
  /\ \A t \in Slots :
       (t >= 1 /\ tasks[t].pc = "done" /\ tasks[t].errs # <<>> /\ tasks[t].outcome # "saved")
         => tasks[t].url \in Range(failed) \cup BlockedUrls
  /\ (pc = "done" /\ entryIn.ok) =>
       /\ EverQueued \subseteq visited
       /\ batches = <<>> /\ queue = <<>>
       /\ visited \subseteq WrittenUrls \cup Range(failed) \cup BlockedUrls

\* crawl returned although a page of an earlier batch had failed, and the last
\* page fetched, in a later batch, was saved
C5_Witness ==
  /\ pc = "done" /\ LinkMode
  /\ \E i \in 1..Len(fetchLog) :
       /\ i + EffConcurrency(opts) <= Len(fetchLog)
       /\ fetchLog[i] \in Range(failed)
  /\ fetchLog[Len(fetchLog)] \in WrittenUrls

\* the numbers carried by the files written to a directory
DirNumbers(dir) == {written[i].path.num : i \in {j \in 1..Len(written) : written[j].path.dir = dir}}
DirFileCount(dir) == Cardinality({j \in 1..Len(written) : written[j].path.dir = dir})
WrittenDirs == {written[i].path.dir : i \in 1..Len(written)}

\* C6: with numbering, at every point and for every directory the numbers of
\* the files written there are exactly 1..k, k the number of files written there.
C6_NumbersContiguous ==
  opts.numbered => \A dir \in WrittenDirs : DirNumbers(dir) = 1..DirFileCount(dir)

\* C7: when crawl has returned or rejected, every browser session launched
\* during the crawl is closed, and the release was performed exactly once.
C7_SessionsReleased ==
  (pc \in {"done", "threw"} /\ launched > 0) => (openSessions = {} /\ closeCalls = 1)

\* C8: during one crawl at most one browser session is ever launched.
C8_SingleSession == launched <= 1

\* C9: the number of page-processing tasks in flight never exceeds the
\* configured concurrency.
C9_BoundedInFlight == Cardinality(Running) <= opts.concurrency

\* a full batch of at least two tasks is in flight
C9_Witness == opts.concurrency >= 2 /\ Cardinality(Running) = opts.concurrency /\ pc = "batch"

\* the adapters that apply to a URL, in the documented order
ChainOrder == <<"md-endpoint", "mdx", "jina", "playwright">>
Applicable(u, o) ==
  SelectSeqBy(ChainOrder,
    {a \in Range(ChainOrder) :
       \/ a = "md-endpoint" /\ (o.useMdEndpoint \/ u.host \in MD_ENDPOINT_DOMAINS)
       \/ a = "mdx" /\ u.host \in MDX_SITES
       \/ a = "jina" /\ o.useJina
       \/ a = "playwright"})

\* C10: fetchWithFallback attempts the applicable adapters in the order
\* md-endpoint, mdx, jina, playwright, every attempt before the last one has
\* failed, the chain fails only when all of them were attempted, and on
\* success the reported adapter is the last one attempted.
C10_ChainOrder ==
  \A t \in Slots :
    LET r == tasks[t]
        app == Applicable(r.url, opts)
        k == Len(r.tried)
    IN r.tried # <<>> =>
         /\ k <= Len(app) /\ r.tried = SubSeq(app, 1, k)
         /\ Len(r.errs) \in {k - 1, k}
         /\ \A i \in 1..Len(r.errs) : r.errs[i].adapter = r.tried[i]
         /\ Len(r.errs) = k => (k = Len(app) /\ r.outcome \in {"failed", "blocked", "threw"})
         /\ (r.pc = "saving" \/ r.outcome = "saved") => (Len(r.errs) = k - 1 /\ r.adapter = r.tried[k])

\* a page of a host on the md-endpoint allowlist whose endpoint answered with
\* HTML was fetched by the next adapter
C10_Witness ==
  \E t \in Slots :
    /\ tasks[t].pc = "saving"
    /\ tasks[t].url.host \in MD_ENDPOINT_DOMAINS
    /\ tasks[t].errs = <<[adapter |-> "md-endpoint",
                          error |-> Error("Received HTML instead of Markdown (Content-Type)")]>>
    /\ tasks[t].adapter = "mdx"

\* the error a task ended with is the aggregate error of fetchWithFallback
ChainFailed(r) == r.thrown.message # <<>> /\ r.thrown.message[1] = <<"All adapters failed">>

\* C11: fetchWithFallback fails only when every adapter it attempted has
\* failed, and the message of its error then has one line for each attempted
\* adapter and for no other, in the order of the attempts, made of the name
\* of the adapter and the message of the error that adapter failed with; a
\* page whose fetch succeeded carries no such error.
C11_ErrorListsAttempts ==
  \A t \in Slots :
    LET r == tasks[t]
        m == r.thrown.message
    IN /\ ChainFailed(r) =>
            /\ Len(r.errs) = Len(r.tried)
            /\ Len(m) = 1 + Len(r.tried)
            /\ \A i \in 1..Len(r.tried) :
                 m[i + 1] = <<r.tried[i], ": ">> \o r.errs[i].error.message[1]
       /\ (r.pc = "saving" \/ r.outcome = "saved") => ~ChainFailed(r)
       /\ (r.pc = "done" /\ r.tried # <<>> /\ Len(r.errs) = Len(r.tried)) => ChainFailed(r)

\* with --use-jina on a host that is on no allowlist, jina and then playwright
\* failed: the error lists those two and neither md-endpoint nor mdx
C11_Witness ==
  \E t \in Slots :
    /\ ChainFailed(tasks[t])
    /\ tasks[t].tried = <<"jina", "playwright">>
    /\ tasks[t].thrown.message =
         << <<"All adapters failed">>,
            <<"jina", ": ", "Jina Reader error">>,
            <<"playwright", ": ", "Timeout 30000ms exceeded">> >>

\* C12: when useJina is not set, no page is ever handed to the jina adapter,
\* whatever the URL and whichever of the other adapters failed before.
C12_JinaOnlyOptIn ==
  ~opts.useJina =>
    \A t \in Slots : tasks[t].adapter # "jina" /\ "jina" \notin Range(tasks[t].tried)

\* without useJina, md-endpoint and mdx both failed for a page and the chain
\* went on to playwright
C12_Witness ==
  /\ ~opts.useJina
  /\ \E t \in Slots : tasks[t].tried = <<"md-endpoint", "mdx", "playwright">>

\* an adapter was forced by an option of the invocation
Forced(o) == o.useJina \/ o.useMdEndpoint

\* C13: in a forced single-adapter mode exactly one adapter, the one
\* getAdapter selects, is attempted for each page; when it fails no other
\* adapter is attempted for that page.
C13_ForcedSingleAdapter ==
  Forced(opts) =>
    \A t \in Slots :
      tasks[t].tried = <<>> \/ tasks[t].tried = <<getAdapter(tasks[t].url, opts)>>

\* C14: at the end of a crawl the reported saved count is the number of URLs
\* whose file was written, and every processed URL is counted in exactly one
\* of saved, blocked and failed.
C14_SummaryCounts ==
  pc = "done" =>
    /\ ReportedSaved = Cardinality(WrittenUrls)
    /\ ReportedSaved + ReportedBlocked + ReportedFailed = Cardinality(visited)
    /\ \A i \in 1..Len(failed) : failed[i] \notin WrittenUrls
    /\ \A i \in 1..Len(blocked) : blocked[i].url \notin WrittenUrls

\* C15: with numbering disabled, two distinct URLs that were both saved in
\* one crawl were never written to the same output path, so no saved page
\* overwrote another.
C15_OneFilePerUrl ==
  ~opts.numbered =>
    \A i, j \in 1..Len(written) :
      written[i].url # written[j].url => written[i].path # written[j].path

\* the content and base of the link-filtering example
ExampleContent == << Rel(<<"docs", "b">>), Link(U("other.com", <<"y">>)), Rel(<<"docs", "c.png">>),
                     FragOnly(NoUrl) >>
ExampleBase == U("x.com", <<"docs", "a">>)

\* C16: extractDocLinks with default options returns only absolute URLs of the
\* origin of the base, under the documentation base path of the base, not
\* ending in a non-document extension, without fragment and without query;
\* content made of fragment-only, mailto: and javascript: targets gives
\* nothing; for base https://x.com/docs/a and the targets /docs/b,
\* https://other.com/y, /docs/c.png and #frag the result is exactly
\* https://x.com/docs/b.
C16_LinksFiltered ==
  call.fn = "extractDocLinks" =>
    LET base == call.in.base
        content == call.in.content
        out == call.out
    IN /\ \A i \in 1..Len(out) :
            /\ out[i].host # "" /\ out[i].host = base.host
            /\ \A k \in 1..Len(base.path) :
                 (base.path[k] \in docPatterns /\ \A j \in 1..(k - 1) : base.path[j] \notin docPatterns)
                   => (Len(out[i].path) >= 1 /\ out[i].path[1] = base.path[k]
                        /\ (Len(out[i].path) >= 2 \/ out[i].slash))
            /\ ~(~out[i].slash /\ out[i].path # <<>> /\ out[i].path[Len(out[i].path)] \in AssetSegments)
            /\ out[i].hash = "" /\ out[i].search = ""
       /\ (\A i \in 1..Len(content) : content[i].kind \in {"fragment", "mailto", "javascript"})
            => out = <<>>
       /\ (base = ExampleBase /\ content = ExampleContent) => out = <<U("x.com", <<"docs", "b">>)>>

\* extractDocLinks was applied to the example
C16_Witness ==
  /\ call.fn = "extractDocLinks"
  /\ call.in = [content |-> ExampleContent, base |-> ExampleBase]
  /\ call.out = <<U("x.com", <<"docs", "b">>)>>

\* C17: toLocalPath maps a page URL to the path segments that follow the
\* first segment matching the documentation-root vocabulary, the last of
\* them being the file name that gets .md, and to index.md when nothing
\* follows the root: https://x.com/docs/guide/setup gives guide/setup.md and
\* https://x.com/docs/ gives index.md.
C17_LocalPath ==
  call.fn = "toLocalPath" =>
    LET parts == call.in.path
        out == call.out
        roots == {i \in 1..Len(parts) : toLowerCase(parts[i]) \in docPatterns}
    IN /\ \A i \in roots :
            (\A j \in roots : i <= j) =>
               IF i = Len(parts)
               THEN out = [dir |-> <<>>, file |-> "index", num |-> 0]
               ELSE /\ out.dir \o <<out.file>> = SubSeq(parts, i + 1, Len(parts))
                    /\ out.num = 0
       /\ call.in = U("x.com", <<"docs", "guide", "setup">>)
            => out = [dir |-> <<"guide">>, file |-> "setup", num |-> 0]
       /\ call.in = MkUrl("x.com", <<"docs">>, TRUE, "", "")
            => out = [dir |-> <<>>, file |-> "index", num |-> 0]

\* toLocalPath was applied to https://x.com/docs/guide/setup
C17_Witness ==
  /\ call.fn = "toLocalPath"
  /\ call.in = U("x.com", <<"docs", "guide", "setup">>)
  /\ call.out = [dir |-> <<"guide">>, file |-> "setup", num |-> 0]

\* the concatenation of a sequence of sequences
RECURSIVE ConcatAll(_)
ConcatAll(ss) == IF ss = <<>> THEN <<>> ELSE Head(ss) \o ConcatAll(Tail(ss))

\* C18: parseSitemap fails when the root sitemap cannot be fetched; on an
\* index whose children are url sets it returns the concatenation, in index
\* order, of the URL lists of the children that could be fetched, a child
\* whose fetch fails contributing nothing; an index of two children with two
\* entries each gives exactly those four URLs when every fetch succeeds.
C18_IndexFlattened ==
  call.fn = "parseSitemap" =>
    LET root == call.in.root
        web == call.in.web
        down == call.in.down
        out == call.out
        children == SelectSeqBy(web[root].subs, Range(web[root].subs) \ {""})
        fetched(c) == c \in DOMAIN web /\ c \notin down
        listOf(c) == IF fetched(c) THEN SelectSeqBy(web[c].urls, Range(web[c].urls) \ {NoUrl}) ELSE <<>>
    IN /\ root \in down => ~out.ok
       /\ (root \notin down /\ web[root].kind = "index"
            /\ \A i \in 1..Len(children) : fetched(children[i]) => web[children[i]].kind = "urlset")
            => /\ out.ok
               /\ out.urls = ConcatAll([i \in 1..Len(children) |-> listOf(children[i])])
       /\ (down = {} /\ web[root] = Index(<<"/s1.xml", "/s2.xml">>)
            /\ web["/s1.xml"] = UrlSet(<<PA("x.com"), PB("x.com")>>)
            /\ web["/s2.xml"] = UrlSet(<<PC("x.com"), PD("x.com")>>))
            => out.urls = <<PA("x.com"), PB("x.com"), PC("x.com"), PD("x.com")>>

\* the first child of a two-child index could not be fetched: the two URLs of
\* the second child are returned
C18_Witness ==
  /\ call.fn = "parseSitemap"
  /\ call.in.down = {"/s1.xml"}
  /\ call.in.web[call.in.root] = Index(<<"/s1.xml", "/s2.xml">>)
  /\ call.out = [ok |-> TRUE, urls |-> <<PC("x.com"), PD("x.com")>>]

\* the URLs of the site's sitemap that lie under the base path of the entry
\* (all of them when the entry has no documentation root)
SitemapSet ==
  LET all == Range(SitemapUrls(EntryUrl.host))
      roots == {i \in 1..Len(EntryUrl.path) : EntryUrl.path[i] \in docPatterns}
  IN IF roots = {} THEN all
     ELSE {u \in all : \E i \in roots :
             /\ \A j \in roots : i <= j
             /\ Len(u.path) >= 1 /\ u.path[1] = EntryUrl.path[i]
             /\ (Len(u.path) >= 2 \/ u.slash)}

\* C19: in sitemap mode only URLs of the sitemap that pass the base-path
\* filter are handed to fetchWithFallback, nothing is ever queued from the
\* links of a fetched page, and when the crawl completes every such URL was
\* handed over, whatever the depth option.
C19_SitemapIsAuthoritative ==
  SitemapMode =>
    /\ Range(fetchLog) \subseteq SitemapSet
    /\ queue = <<>> /\ queued = {}
    /\ \A t \in Slots : tasks[t].depth = 0
    /\ pc = "done" => Range(fetchLog) = SitemapSet

\* a sitemap crawl with depth 2 completed: /docs/a was saved, the page
\* /docs/b it links to is not in the sitemap and was not fetched
C19_Witness ==
  /\ SitemapMode /\ pc = "done" /\ opts.depth = 2
  /\ PA(EntryUrl.host) \in WrittenUrls
  /\ Link(PB(EntryUrl.host)) \in Range(PageLinks(PA(EntryUrl.host)))
  /\ PB(EntryUrl.host) \notin Range(fetchLog)
  /\ Cardinality(Range(fetchLog)) = 3

\* findSitemapUrl found no sitemap, or the GET of the sitemap it found failed
SitemapUnavailable ==
  \/ call.fn = "findSitemapUrl" /\ \A i \in DOMAIN call.in : call.in[i] # "ok"
  \/ call.fn = "parseSitemap" /\ call.in.root \in call.in.down

\* C20: in sitemap mode, when no candidate location answers ok or the root
\* sitemap cannot be fetched, crawl is on its way to rejecting with that
\* error: no page was fetched, no task was created and no file was written.
C20_NoSitemapAborts ==
  SitemapUnavailable =>
    /\ pc \in {"finally", "threw"}
    /\ exc \in {"no-sitemap", "sitemap-fetch"}
    /\ fetchLog = <<>> /\ written = <<>> /\ visited = {}
    /\ \A t \in Slots : tasks[t] = IdleTask

\* the three candidate locations answered 404, network error, 404 and crawl
\* has rejected
C20_Witness ==
  /\ pc = "threw" /\ exc = "no-sitemap"
  /\ call.fn = "findSitemapUrl"
  /\ call.in = <<"notok", "throws", "notok">>

\* the resolved path p is the directory d or lies below it
InsideDir(p, d) == Len(p) >= Len(d) /\ SubSeq(p, 1, Len(d)) = d

\* C21: saveFile rejects, writing nothing, exactly when the resolved path is
\* outside the configured output directory, and otherwise writes the file at
\* the resolved path, for relative, nested and absolute output directories.
C21_SaveFileGuard ==
  call.fn = "saveFile" =>
    LET target == resolvePath(call.in.path)
        root == resolvePath(call.in.outDir)
    IN /\ call.out.rejected <=> ~InsideDir(target, root)
       /\ call.out.rejected => call.out.wrote = <<>>
       /\ ~call.out.rejected => call.out.wrote = <<target>>

\* crawl has resolved or rejected
Returned == pc \in {"done", "threw"}

\* C22: a link-follow crawl, whatever the link graph (with or without
\* cycles), depth and concurrency, eventually finds its queue empty and
\* returns, given that every fetch and save that was started completes.
C22_LinkCrawlTerminates == LinkMode => <>(Returned /\ queue = <<>>)

\* a crawl of the site whose pages link back to each other returned after
\* going two levels deep
C22_Witness ==
  /\ LinkMode /\ pc = "done" /\ opts.depth = 2
  /\ EntryUrl.host = "x.com"
  /\ PC("x.com") \in WrittenUrls /\ PA("x.com") \in WrittenUrls
  /\ queue = <<>>

\* C23: in link mode the entries ever pushed are, in order and unchanged,
\* the entries already taken off the queue followed by the entries still on
\* it, so each is taken at most once with the url and depth it was pushed
\* with and none disappears; and the crawl returns with all of them taken.
C23_ConsumedOnce ==
  /\ [](LinkMode => hist.enq = hist.deq \o queue)
  /\ (LinkMode => <>(Returned /\ hist.deq = hist.enq))

\* a crawl returned after taking entries of depth 1 and of depth 2 off the
\* queue, in more than one batch
C23_Witness ==
  /\ LinkMode /\ pc = "done"
  /\ Len(hist.deq) > EffConcurrency(opts)
  /\ hist.deq = hist.enq
  /\ \E i, j \in 1..Len(hist.deq) : hist.deq[i].depth = 1 /\ hist.deq[j].depth = 2

\* the urls of the entries ever pushed on the queue, in push order
EnqueuedUrls == [i \in 1..Len(hist.enq) |-> hist.enq[i].url]

\* C24: in link mode no url is pushed on the queue twice, and the entry url
\* is never pushed, whichever pages link to it and whenever they are saved.
C24_EnqueuedOnce ==
  LinkMode =>
    /\ \A i, j \in 1..Len(EnqueuedUrls) : EnqueuedUrls[i] = EnqueuedUrls[j] => i = j
    /\ \A i \in 1..Len(EnqueuedUrls) : EnqueuedUrls[i] # EntryUrl

\* two pages of one batch that both link to the same page were both saved,
\* and that page was pushed
C24_Witness ==
  /\ LinkMode /\ opts.depth = 2
  /\ \E s, t \in Slots :
       /\ s >= 1 /\ t > s
       /\ tasks[s].outcome = "saved" /\ tasks[t].outcome = "saved"
       /\ \E u \in Range(EnqueuedUrls) :
            /\ u \in Range(extractDocLinks(PageLinks(tasks[s].url), tasks[s].url))
            /\ u \in Range(extractDocLinks(PageLinks(tasks[t].url), tasks[t].url))
            /\ \E i \in 1..Len(hist.enq) : hist.enq[i].url = u /\ hist.enq[i].depth = 2

\* a step that pushes entries on the queue of the link loop
Pushes == pc = "batch" /\ hist'.enq # hist.enq

\* a step that hands the tasks of a new batch to the limiter
IssuesBatch == \E t \in Slots : t >= 1 /\ tasks[t].pc # "waiting" /\ tasks'[t].pc = "waiting"

\* C25 as stated: links are pushed only once every task of the batch has
\* completed, and a new batch is issued only once every task of the current
\* one has completed.
C25_PushAfterBatch ==
  [][/\ (LinkMode /\ Pushes) => BatchSettled'
     /\ IssuesBatch => BatchSettled]_vars

\* C25, amended: the links found by a task are pushed in the step in which
\* that task's page is saved, whether or not its siblings have completed,
\* with the depth of that task plus one; and, in both modes, a new batch is
\* issued only once every task of the current one has completed.
C25_BatchAwaited ==
  [][/\ (LinkMode /\ Pushes) =>
          \E t \in Slots :
            /\ t >= 1 /\ tasks[t].pc = "saving" /\ tasks'[t].outcome = "saved"
            /\ \A i \in (Len(hist.enq) + 1)..Len(hist'.enq) : hist'.enq[i].depth = tasks[t].depth + 1
     /\ IssuesBatch => BatchSettled]_vars

\* a task has pushed the links of its page while a sibling of the same batch
\* is still being fetched, and a later batch was issued after an earlier one
C25_Witness ==
  /\ LinkMode /\ pc = "batch"
  /\ \E s, t \in Slots :
       /\ s >= 1 /\ t >= 1 /\ s # t
       /\ tasks[s].outcome = "saved" /\ tasks[s].depth = 1
       /\ tasks[t].pc \notin {"idle", "done", "waiting"}
       /\ \E i \in 1..Len(hist.enq) :
            /\ hist.enq[i].depth = 2
            /\ hist.enq[i].url \in Range(extractDocLinks(PageLinks(tasks[s].url), tasks[s].url))

\* the numbers of the files written to a directory, in the order of writing
DirWrites(dir) == SelectSeq(written, LAMBDA w : w.path.dir = dir)

\* C26: with numbering, a counter changes only in the step that issues a
\* write for its directory, by one, and is never reset (so a fetch that fails
\* or is blocked changes no counter); and the files written to a directory
\* carry strictly increasing numbers starting at 1 in the order of writing.
C26_CounterFrame ==
  /\ [][counters' # counters =>
          \E t \in Slots :
            /\ tasks[t].pc # "saving" /\ tasks'[t].pc = "saving"
            /\ LET dir == tasks'[t].path.dir IN
               /\ counters' = CounterSet(counters, dir, CounterGet(counters, dir) + 1)
               /\ tasks'[t].path.num = counters'[dir]]_vars
  /\ [](opts.numbered =>
          \A dir \in WrittenDirs :
            /\ DirWrites(dir)[1].path.num = 1
            /\ \A i, j \in 1..Len(DirWrites(dir)) :
                 i < j => DirWrites(dir)[i].path.num < DirWrites(dir)[j].path.num)

\* the tasks whose rendering fetch is in flight with a page open
Rendering == {t \in Slots : tasks[t].pc = "rendering"}

\* C27: a page opened for a fetch is never closed twice, it is open exactly
\* while its fetch is being rendered, each fetch has a page of its own, and
\* when no fetch is being rendered every page opened so far has been closed
\* once, however the fetch ended.
C27_PagesClosed ==
  /\ \A i \in 1..Len(pages) : pages[i] <= 1
  /\ \A i \in 1..Len(pages) : pages[i] = 0 <=> \E t \in Rendering : tasks[t].page = i
  /\ \A s, t \in Rendering : tasks[s].page = tasks[t].page => s = t
  /\ Rendering = {} => \A i \in 1..Len(pages) : pages[i] = 1

\* three pages were opened and all are closed: one fetch returned its
\* content, the fetch of one linked page was rejected as blocked content and
\* the fetch of another timed out
C27_Witness ==
  /\ Rendering = {} /\ Len(pages) = 3
  /\ LinkMode /\ EntryUrl \in WrittenUrls
  /\ \E s, t \in Slots :
       /\ tasks[s].page > 0 /\ tasks[t].page > 0 /\ s # t
       /\ tasks[s].errs # <<>> /\ tasks[s].errs[Len(tasks[s].errs)].error.cls = "BlockedContentError"
       /\ tasks[t].errs # <<>> /\ tasks[t].errs[Len(tasks[t].errs)].error = Error("Timeout 30000ms exceeded")
  /\ \A i \in 1..Len(pages) : pages[i] = 1

\* C28: in both modes every member of the visited set is a normalized url:
\* it has no fragment and no query, and normalizing it changes nothing.
C28_VisitedNormalized ==
  \A u \in visited : u.hash = "" /\ u.search = "" /\ normalizePageUrl(u) = u

\* C29: the rendered Markdown handed to validateContent is classified with a
\* fixed precedence: empty, then a Cloudflare marker anywhere, then an
\* access-denied marker anywhere, then a bot-detection phrase in a text shorter
\* than 100 characters; everything else passes, in particular every text of
\* 100 characters or more that holds no Cloudflare or access-denied marker.
C29_ValidatePrecedence ==
  call.fn = "validateContent" =>
    LET text == call.in
        isEmpty == text = <<>>
        cloudflare == \E i \in 1..Len(text) : text[i] = "cf_chl_opt"
        denied == \E i \in 1..Len(text) : text[i] = "403 Forbidden"
        phrase == \/ text = <<"Just a moment...">>
                  \/ text # <<>> /\ text[1] \in {"Please wait while we verify", "Access denied", "403 Forbidden"}
        chars == StringLength(text)
    IN /\ isEmpty => call.out = "empty"
       /\ (~isEmpty /\ cloudflare) => call.out = "cloudflare"
       /\ (~isEmpty /\ ~cloudflare /\ denied) => call.out = "access-denied"
       /\ (~isEmpty /\ ~cloudflare /\ ~denied /\ chars < 100 /\ phrase) => call.out = "bot-detection"
       /\ (~isEmpty /\ ~cloudflare /\ ~denied /\ ~(chars < 100 /\ phrase)) => call.out = ""
       /\ (chars >= 100 /\ ~cloudflare /\ ~denied) => call.out = ""

\* a short text that begins with a bot-detection phrase and is an
\* access-denied marker at once was classified as access-denied
C29_Witness ==
  /\ call.fn = "validateContent"
  /\ call.in = <<"403 Forbidden">>
  /\ call.out = "access-denied"

\* the body of a response without the white space around it, and its length
TrimmedBody(res) == Trim(res.text)
BodyRejected(res) ==
  \/ TrimmedBody(res) # <<>> /\ TrimmedBody(res)[1] \in {"<!DOCTYPE html>", "{"}
  \/ StringLength(TrimmedBody(res)) < 10

\* C30 as stated: the md-endpoint adapter fails exactly when the status is
\* not OK, the content type names JSON or HTML, or the trimmed body starts
\* with an HTML document marker, with { or [, or has fewer than 10
\* characters; otherwise it returns the body as received.
C30_MdEndpointRejects ==
  call.fn = "fetchMdEndpoint" =>
    LET res == call.in
        rejected == \/ ~res.ok
                    \/ "application/json" \in Range(res.contentType)
                    \/ "text/html" \in Range(res.contentType)
                    \/ BodyRejected(res)
    IN /\ rejected => call.out.threw
       /\ ~rejected => (~call.out.threw /\ call.out.value = res.text)

\* C30, amended: as C30, but a content type that names HTML is rejected only
\* when it does not name text/markdown as well.
C30_MdEndpointRejectsHtmlOnly ==
  call.fn = "fetchMdEndpoint" =>
    LET res == call.in
        rejected == \/ ~res.ok
                    \/ "application/json" \in Range(res.contentType)
                    \/ ("text/html" \in Range(res.contentType) /\ "text/markdown" \notin Range(res.contentType))
                    \/ BodyRejected(res)
    IN /\ rejected => call.out.threw
       /\ ~rejected => (~call.out.threw /\ call.out.value = res.text)

\* a body with white space around it was returned as received although its
\* content type names HTML next to text/markdown
C30_Witness ==
  /\ call.fn = "fetchMdEndpoint"
  /\ call.in.ok /\ call.in.contentType = <<"text/html", "text/markdown">>
  /\ call.in.text = <<Space, "Some text.", Space>>
  /\ ~call.out.threw /\ call.out.value = <<Space, "Some text.", Space>>

\* the best score a framework reaches on a page, and the first framework, in
\* the order of the pattern list, that reaches it
BestScore(hits) ==
  LET all == {ScoreOf(hits, Frameworks[i]) : i \in 1..Len(Frameworks)}
  IN CHOOSE m \in all : \A n \in all : m >= n
BestFramework(hits) ==
  Frameworks[CHOOSE i \in 1..Len(Frameworks) :
               /\ ScoreOf(hits, Frameworks[i]) = BestScore(hits)
               /\ \A j \in 1..(i - 1) : ScoreOf(hits, Frameworks[j]) < BestScore(hits)]

C32_BadEntryAborts ==
  (~entryIn.ok \/ entryIn.protocol \notin {"http:", "https:"}) =>
    /\ pc \in {"init", "threw"}
    /\ pc = "threw" => exc = "invalid-url"
    /\ fetchLog = <<>> /\ launched = 0 /\ pages = <<>> /\ written = <<>>
    /\ \A t \in Slots : tasks[t] = IdleTask

\* the run with an ftp entry has ended with the error
C32_Witness ==
  /\ entryIn.ok /\ entryIn.protocol = "ftp:"
  /\ pc = "threw" /\ exc = "invalid-url"

\* C33: a link-mode crawl in which no fetch and no save failed has, when it
\* returns, fetched every page within maxDepth link hops of the entry page,
\* whatever the concurrency and the order in which the tasks completed.
C33_ReachableFetched ==
  (LinkMode /\ pc = "done" /\ faults = 0) =>
    WithinHops(EntryUrl, opts.depth) \subseteq Range(fetchLog)

\* the least number of link hops from the entry page to a page within maxDepth hops
HopDistance(u) ==
  CHOOSE k \in 0..opts.depth :
    /\ u \in WithinHops(EntryUrl, k)
    /\ \A j \in 0..(k - 1) : u \notin WithinHops(EntryUrl, j)

\* C34: in link mode every entry pushed on the queue carries the least
\* number of link hops from the entry page to its url, and the queue is at
\* all times in order of non-decreasing depth.
C34_DepthIsDistance ==
  LinkMode =>
    /\ \A i \in 1..Len(hist.enq) :
         /\ hist.enq[i].url \in WithinHops(EntryUrl, opts.depth)
         /\ hist.enq[i].depth = HopDistance(hist.enq[i].url)
    /\ \A i, j \in 1..Len(queue) : i < j => queue[i].depth <= queue[j].depth

\* C35: parseSitemap terminates on every finite web of sitemap documents and
\* fetches no document without bound.  As the documents do not change, a call
\* for a location made while a call for the same location is in progress
\* repeats the outer call without end; so no location is ever twice among
\* the calls in progress.
C35_ParseTerminates ==
  call.fn = "parseSitemapRun" =>
    \A i, j \in 1..Len(call.out.stack) :
      call.out.stack[i].name = call.out.stack[j].name => i = j

\* the documentation root of a url: its path up to and including the first
\* documentation segment (<<>> when it has none); a page is under the root
\* when its path continues it
DocRoot(u) ==
  IF \E k \in 1..Len(u.path) : u.path[k] \in docPatterns
  THEN SubSeq(u.path, 1, CHOOSE k \in 1..Len(u.path) :
                           u.path[k] \in docPatterns /\ \A j \in 1..(k - 1) : u.path[j] \notin docPatterns)
  ELSE <<>>
UnderRoot(u, base) ==
  /\ DocRoot(base) # <<>>
  /\ Len(u.path) > Len(DocRoot(base))
  /\ SubSeq(u.path, 1, Len(DocRoot(base))) = DocRoot(base)
OutsideRoot(u, base) ==
  /\ DocRoot(base) # <<>>
  /\ (Len(u.path) < Len(DocRoot(base)) \/ SubSeq(u.path, 1, Len(DocRoot(base))) # DocRoot(base))

\* C36: when the base or entry url has a documentation root, at whatever
\* position of its path, a page of the same origin under that root passes
\* the base-path filter of extractDocLinks and of the sitemap crawl, and a
\* page of the same origin outside that root does not.
C36_BasePathFilter ==
  /\ call.fn = "extractDocLinks" =>
       \A i \in 1..Len(call.in.content) :
         LET l == call.in.content[i]
             base == call.in.base
             target == Resolve(l.url, base)
         IN (l.kind = "link" /\ target.host = base.host /\ ~EndsInAsset(target)) =>
              /\ UnderRoot(target, base) => normalizePageUrl(target) \in Range(call.out)
              /\ OutsideRoot(target, base) => normalizePageUrl(target) \notin Range(call.out)
  /\ call.fn = "filterByBasePath" =>
       \A i \in 1..Len(call.in.urls) :
         LET u == call.in.urls[i]
             base == call.in.entry
         IN /\ UnderRoot(u, base) => u \in Range(call.out)
            /\ OutsideRoot(u, base) => u \notin Range(call.out)

\* C37: when two crawls run concurrently in one process, a crawl that is
\* still fetching a page through the rendering engine holds a session that is
\* open: the finalization of the other crawl never closes it.
C37_SessionKeptForRunningCrawl ==
  PairRunning =>
    \A c \in Crawls :
      call.out.crawl[c].pc \in {"newPage", "rendering"} => call.out.crawl[c].inst \in call.out.open

\* the output paths handed out so far: those of the files written and those
\* of the pages whose saveFile is in progress
SavingSlots == {t \in Slots : tasks[t].pc = "saving"}
HandedOut ==
  {[at |-> <<"written", i>>, path |-> written[i].path, url |-> written[i].url] : i \in 1..Len(written)}
    \cup {[at |-> <<"saving", t>>, path |-> tasks[t].path, url |-> tasks[t].url] : t \in SavingSlots}

\* C38: with numbering, no (directory, number) pair is handed out twice in
\* one crawl, so any two pages saved get different output paths, also when
\* toLocalPath gives their URLs the same un-numbered path.
C38_NumberedPathsDistinct ==
  opts.numbered =>
    \A a, b \in HandedOut :
      a.at # b.at =>
        /\ <<a.path.dir, a.path.num>> # <<b.path.dir, b.path.num>>
        /\ a.path # b.path

\* two pages whose URLs toLocalPath maps to the same path were written, with
\* different numbers
C38_Witness ==
  /\ opts.numbered
  /\ \E i, j \in 1..Len(written) :
       /\ i # j
       /\ written[i].url # written[j].url
       /\ toLocalPath(written[i].url) = toLocalPath(written[j].url)
       /\ written[i].path.num # written[j].path.num

====
